---------------------------- MODULE Spec2Model ----------------------------
(***************************************************************************)
(* Cloud object namespace model of ipyfilechooser: the lazily fetched      *)
(* CloudObj / AzureObj tree (utils_cloud.py, utils_azure.py), the flat-key *)
(* parser and the backend adapter it talks to.                             *)
(*                                                                         *)
(* Python strings are sequences of one-character strings, so that split,   *)
(* os.path.join, fnmatch and string comparison are computed, not assumed.  *)
(* Objects are identified by their index in the sequence `nodes`.          *)
(***************************************************************************)
EXTENDS Integers, Sequences, FiniteSets, TLC

VARIABLES
    nodes,      \* heap of CloudObj instances, indexed by object identity
    error,      \* CloudClient._error of the backend adapter
    failed,     \* nodes whose latest listing call returned None
    lastcall,   \* the latest call of the backend: its arguments and its answer
    az,         \* the AzureClient: its credentials and what it has cached
    azcall,     \* the latest operation of the AzureClient and how it ended
    fc,         \* the FileChooser: source, credentials, client cache and form
    fcop,       \* the latest event the FileChooser handled
    treeop      \* the operation the latest step made on a node directly

vars == <<nodes, error, failed, lastcall, az, azcall, fc, fcop, treeop>>

---------------------------------------------------------------------------
(* Bounds of the model *)

MaxKeys == 2        \* keys in one get_objects listing
MaxBuckets == 2     \* names in one get_buckets listing
MaxListings == 1    \* buckets whose objects are listed in one behaviour
MaxRoots == 2       \* master roots the chooser makes in one behaviour
MaxAddNodes == 6    \* objects of the heap while _add is called directly
MaxS3Nodes == 10    \* objects of the heap of an S3Obj tree
MaxNodes == 9       \* CloudObj instances once parse_objpaths is called directly

---------------------------------------------------------------------------
(* Strings *)

SEP == "/"

\* code point of the characters used by the model
Ord(c) ==
    CASE c = "/" -> 47
      [] c = "." -> 46
      [] c = ":" -> 58
      [] c = "B" -> 66
      [] c = "a" -> 97
      [] c = "b" -> 98
      [] c = "c" -> 99
      [] c = "d" -> 100
      [] c = "e" -> 101
      [] c = "f" -> 102
      [] c = "h" -> 104
      [] c = "j" -> 106
      [] c = "l" -> 108
      [] c = "m" -> 109
      [] c = "n" -> 110
      [] c = "o" -> 111
      [] c = "r" -> 114
      [] c = "s" -> 115
      [] c = "u" -> 117
      [] c = "z" -> 122
      [] OTHER -> 0

\* the element of a set of one element: The({e(x) : x \in {v}}) is e(v) with v
\* computed once
The(S) == CHOOSE x \in S : TRUE

\* str.__lt__: lexicographic comparison by code point
RECURSIVE StrLess(_, _)
StrLess(s, t) ==
    IF t = <<>> THEN FALSE
    ELSE IF s = <<>> THEN TRUE
    ELSE IF Ord(Head(s)) # Ord(Head(t)) THEN Ord(Head(s)) < Ord(Head(t))
    ELSE StrLess(Tail(s), Tail(t))

\* str.lower() on one character
LowerChar(c) == IF c = "B" THEN "b" ELSE c

Lower(s) == [i \in 1..Len(s) |-> LowerChar(s[i])]

\* index of the first separator of s, 0 when there is none
FindSep(s) ==
    IF \E i \in 1..Len(s) : s[i] = SEP
    THEN CHOOSE i \in 1..Len(s) : s[i] = SEP /\ \A j \in 1..(i-1) : s[j] # SEP
    ELSE 0

\* s.split(SEP, 1): <<head, tail>>; defined when s holds a separator
Split1(s) == <<SubSeq(s, 1, FindSep(s) - 1), SubSeq(s, FindSep(s) + 1, Len(s))>>

\* s.split(SEP): every segment, empty ones included
RECURSIVE SplitAll(_)
SplitAll(s) ==
    The({ IF i = 0 THEN <<t>>
          ELSE The({ <<SubSeq(t, 1, i - 1)>> \o SplitAll(rest) :
                     rest \in {SubSeq(t, i + 1, Len(t))} }) :
          t \in {s}, i \in {FindSep(s)} })

\* s.startswith(p)
StartsWith(s, p) == Len(p) <= Len(s) /\ SubSeq(s, 1, Len(p)) = p

\* s.strip(SEP): the separators at both ends removed
RECURSIVE Strip(_)
Strip(s) ==
    IF s = <<>> THEN s
    ELSE IF Head(s) = SEP THEN Strip(Tail(s))
    ELSE IF s[Len(s)] = SEP THEN Strip(SubSeq(s, 1, Len(s) - 1))
    ELSE s

\* posixpath.join(a, b)
PathJoin(a, b) ==
    IF b # <<>> /\ b[1] = SEP THEN b
    ELSE IF a = <<>> \/ a[Len(a)] = SEP THEN a \o b
    ELSE a \o <<SEP>> \o b

\* fnmatch.fnmatch on lower-cased arguments: '*' any run, '?' any character
RECURSIVE FnMatch(_, _)
FnMatch(s, p) ==
    IF p = <<>> THEN s = <<>>
    ELSE IF Head(p) = "*"
         THEN FnMatch(s, Tail(p)) \/ (s # <<>> /\ FnMatch(Tail(s), p))
    ELSE IF s = <<>> THEN FALSE
    ELSE (Head(p) = "?" \/ Head(p) = Head(s)) /\ FnMatch(Tail(s), Tail(p))

\* utils.match_item: a filter is a list of patterns; None and "" are <<>>
match_item(item, filter_pattern) ==
    IF filter_pattern = <<>> THEN TRUE
    ELSE \E i \in 1..Len(filter_pattern) :
            FnMatch(Lower(item), Lower(filter_pattern[i]))

---------------------------------------------------------------------------
(* CloudObj *)

NoneName == <<"None">>      \* _name is None
NoneCh == <<0>>             \* _children is None
NoParent == 0               \* _parent is None
Raised == <<"raised">>      \* the call ended with an exception

\* the classes of nodes; a tree holds nodes of one class, which gives the
\* master root its display string and takes no other part in the operations
Classes == {"CloudObj", "AzureObj"}

MASTER_ROOT_STR(c) ==
    IF c = "AzureObj" THEN <<"a","z","u","r","e",":","/","/">> ELSE <<"/","/">>

ROOT_STR == <<".", ".">>

\* CloudObj.__init__
NewObj(name, parent, root) ==
    [name |-> name, parent |-> parent, root |-> root, children |-> NoneCh,
     clist |-> 0, fetched |-> FALSE, sorted |-> FALSE]

Ids(ns) == 1..Len(ns)

is_root(ns, n) == ns[n].root

is_master_root(ns, n) == is_root(ns, n) /\ ns[n].parent = NoParent

is_dirup(ns, n) == is_root(ns, n) /\ ~is_master_root(ns, n)

is_bucket(ns, n) == ns[n].parent # NoParent /\ is_master_root(ns, ns[n].parent)

has_children(ns, n) == ns[n].children # NoneCh

is_leaf(ns, n) == ns[n].children = NoneCh

is_dir(ns, n) == has_children(ns, n) \/ is_bucket(ns, n) \/ is_dirup(ns, n)

\* the children as a sequence of nodes, empty when _children is None
Kids(ns, n) == IF has_children(ns, n) THEN ns[n].children ELSE <<>>


\* CloudObj.short_name
short_name(ns, c, n) ==
    IF is_master_root(ns, n) THEN MASTER_ROOT_STR(c)
    ELSE IF is_root(ns, n) THEN ROOT_STR
    ELSE ns[n].name

\* CloudObj.get_bucket; on the master root the walk steps onto parent None
RECURSIVE get_bucket(_, _)
get_bucket(ns, n) ==
    IF is_bucket(ns, n) THEN ns[n].name
    ELSE IF ns[n].parent = NoParent THEN Raised
    ELSE get_bucket(ns, ns[n].parent)

\* CloudObj.get_cloud_path_with_bucket; joining the name None raises
RECURSIVE get_cloud_path_with_bucket(_, _, _)
get_cloud_path_with_bucket(ns, c, n) ==
    IF is_master_root(ns, n) THEN MASTER_ROOT_STR(c)
    ELSE LET up == get_cloud_path_with_bucket(ns, c, ns[n].parent)
         IN  IF up = Raised \/ ns[n].name = NoneName THEN Raised
             ELSE PathJoin(up, ns[n].name)

\* CloudObj.get_cloud_path
RECURSIVE get_cloud_path(_, _)
get_cloud_path(ns, n) ==
    IF is_master_root(ns, n) \/ is_bucket(ns, n) THEN <<>>
    ELSE LET up == get_cloud_path(ns, ns[n].parent)
         IN  IF up = Raised \/ ns[n].name = NoneName THEN Raised
             ELSE PathJoin(up, ns[n].name)

\* CloudObj.get_cloud_call_data: <<bucket, obj_path>>, or the error raised
get_cloud_call_data(ns, n) ==
    IF get_bucket(ns, n) = Raised \/ get_cloud_path(ns, n) = Raised
    THEN Raised
    ELSE <<get_bucket(ns, n), get_cloud_path(ns, n)>>

\* CloudObj.get_ancestry
RECURSIVE get_ancestry(_, _, _)
get_ancestry(ns, n, parents) ==
    (IF ns[n].parent # NoParent
     THEN get_ancestry(ns, ns[n].parent, parents)
     ELSE parents) \o <<n>>

\* __lt__ with the directory branch comparing names whatever the kinds are
lt_mut(ns, self, other) ==
    IF is_master_root(ns, self) \/ is_master_root(ns, other)
    THEN ~is_master_root(ns, other)
    ELSE IF is_dirup(ns, self) \/ is_dirup(ns, other)
    THEN ~is_dirup(ns, other)
    ELSE IF is_bucket(ns, self) \/ is_bucket(ns, other)
    THEN IF ~is_bucket(ns, other) THEN TRUE
         ELSE IF is_bucket(ns, self) THEN StrLess(ns[self].name, ns[other].name)
         ELSE FALSE
    ELSE IF has_children(ns, self) \/ has_children(ns, other)
    THEN IF ~has_children(ns, other) THEN TRUE
         ELSE StrLess(ns[self].name, ns[other].name)
    ELSE StrLess(ns[self].name, ns[other].name)

\* CloudObj.__lt__
lt(ns, self, other) ==
    IF is_master_root(ns, self) \/ is_master_root(ns, other)
    THEN ~is_master_root(ns, other)
    ELSE IF is_dirup(ns, self) \/ is_dirup(ns, other)
    THEN ~is_dirup(ns, other)
    ELSE IF is_bucket(ns, self) \/ is_bucket(ns, other)
    THEN IF ~is_bucket(ns, other) THEN TRUE
         ELSE IF is_bucket(ns, self) THEN StrLess(ns[self].name, ns[other].name)
         ELSE FALSE
    ELSE IF has_children(ns, self) \/ has_children(ns, other)
    THEN IF ~has_children(ns, other) THEN TRUE
         ELSE IF has_children(ns, self) THEN StrLess(ns[self].name, ns[other].name)
         ELSE FALSE
    ELSE StrLess(ns[self].name, ns[other].name)

\* one step of list.sort (binary insertion, stable): x goes before the first
\* element it is less than
RECURSIVE InsertSorted(_, _, _)
InsertSorted(ns, s, x) ==
    IF s = <<>> THEN <<x>>
    ELSE IF lt(ns, x, Head(s)) THEN <<x>> \o s
    ELSE <<Head(s)>> \o InsertSorted(ns, Tail(s), x)

\* list.sort() of a list of nodes
RECURSIVE list_sort(_, _)
list_sort(ns, s) ==
    IF s = <<>> THEN <<>>
    ELSE InsertSorted(ns, list_sort(ns, SubSeq(s, 1, Len(s) - 1)), s[Len(s)])

\* _prep_children that sets the flag and leaves the list as it is
prep_children_mut(ns, n) ==
    IF ns[n].fetched /\ has_children(ns, n) /\ ~ns[n].sorted
    THEN [ns EXCEPT ![n].sorted = TRUE]
    ELSE ns

\* CloudObj._prep_children: the heap after the lazy in-place sort
prep_children(ns, n) ==
    IF ns[n].fetched /\ has_children(ns, n) /\ ~ns[n].sorted
    THEN [ns EXCEPT ![n].children = list_sort(ns, @), ![n].sorted = TRUE]
    ELSE ns

---------------------------------------------------------------------------
(* Namespace tree builder *)

\* CloudObj._make_elm: the heap with one more leaf object
make_elm(ns, name, parent) == Append(ns, NewObj(name, parent, FALSE))

\* _make_dir without init_children: the new object has an empty children list
make_dir_mut(ns, name, parent) ==
    LET d == Len(ns) + 1
    IN  Append(ns, [NewObj(name, parent, FALSE) EXCEPT !.children = <<>>,
                                                        !.clist = d])

\* CloudObj._make_dir: a new object followed by the dirup marker that
\* init_children puts in its fresh children list; the list is tagged with
\* the marker's identity
make_dir(ns, name, parent) ==
    LET d == Len(ns) + 1
    IN  ns \o << [NewObj(name, parent, FALSE) EXCEPT
                    !.children = <<d + 1>>, !.clist = d + 1],
                 NewObj(NoneName, d, TRUE) >>

\* self._children.append(obj) for the object created last
append_child(ns, self, obj) == [ns EXCEPT ![self].children = Append(@, obj)]

\* the end of parse_objpaths without "self._fetched = True"
mark_fetched_mut(ns, self) == [ns EXCEPT ![self].sorted = FALSE]

\* the end of parse_objpaths: "All AWS S3 objects are retrieved at once"
mark_fetched(ns, self) == [ns EXCEPT ![self].fetched = TRUE, ![self].sorted = FALSE]

\* children_map as a list of pairs that is never looked up
map_add_mut(cmap, head, tail) == Append(cmap, <<head, <<tail>>>>)

\* children_map[head].append(tail), a dict in insertion order
map_add(cmap, head, tail) ==
    IF \E i \in 1..Len(cmap) : cmap[i][1] = head
    THEN [i \in 1..Len(cmap) |->
            IF cmap[i][1] = head THEN <<head, Append(cmap[i][2], tail)>> ELSE cmap[i]]
    ELSE Append(cmap, <<head, <<tail>>>>)

\* first loop of parse_objpaths: leaves are appended, keys with a separator
\* are grouped by their head
RECURSIVE parse_leaves(_, _, _, _, _, _)
parse_leaves(ns, self, paths, filter_pattern, i, cmap) ==
    IF i > Len(paths) THEN [ns |-> ns, cmap |-> cmap]
    ELSE LET child == paths[i]
         IN  IF child = <<>>
             THEN parse_leaves(ns, self, paths, filter_pattern, i + 1, cmap)
             ELSE IF FindSep(child) = 0
             THEN IF match_item(child, filter_pattern)
                  THEN parse_leaves(
                          append_child(make_elm(ns, child, self), self, Len(ns) + 1),
                          self, paths, filter_pattern, i + 1, cmap)
                  ELSE parse_leaves(ns, self, paths, filter_pattern, i + 1, cmap)
             ELSE parse_leaves(ns, self, paths, filter_pattern, i + 1,
                               map_add(cmap, Split1(child)[1], Split1(child)[2]))

RECURSIVE parse_objpaths(_, _, _, _)
RECURSIVE parse_dirs(_, _, _, _, _)

\* second loop of parse_objpaths: one container per head, parsed recursively
parse_dirs(ns, self, cmap, filter_pattern, i) ==
    IF i > Len(cmap) THEN ns
    ELSE LET d == Len(ns) + 1
             made == make_dir(ns, cmap[i][1], self)
             sub == IF cmap[i][2] # <<>>
                    THEN parse_objpaths(made, d, cmap[i][2], filter_pattern)
                    ELSE made
         IN  parse_dirs(append_child(sub, self, d), self, cmap, filter_pattern, i + 1)

\* CloudObj.parse_objpaths
parse_objpaths(ns, self, paths, filter_pattern) ==
    LET st == parse_leaves(ns, self, paths, filter_pattern, 1, <<>>)
    IN  mark_fetched(parse_dirs(st.ns, self, st.cmap, filter_pattern, 1), self)

NoneList == <<NoneName>>    \* the backend returned None

\* the list comprehension of _parse_children: one container per bucket name
RECURSIVE make_buckets(_, _, _, _)
make_buckets(ns, self, names, i) ==
    IF i > Len(names) THEN ns
    ELSE make_buckets(append_child(make_dir(ns, names[i], self), self, Len(ns) + 1),
                      self, names, i + 1)

\* _parse_children that drops the children when the backend returned None
parse_children_mut(ns, self, children, filter_pattern, buckets, tag) ==
    IF children = NoneList
    THEN [ns EXCEPT ![self].fetched = FALSE, ![self].sorted = FALSE,
                    ![self].children = NoneCh]
    ELSE IF buckets
    THEN LET fresh == [ns EXCEPT ![self].children = <<>>, ![self].clist = tag]
         IN  [make_buckets(fresh, self, children, 1) EXCEPT
                ![self].fetched = TRUE, ![self].sorted = FALSE]
    ELSE IF children # <<>>
    THEN parse_objpaths(ns, self, children, filter_pattern)
    ELSE ns

\* CloudObj._parse_children; tag identifies the list the comprehension builds
parse_children(ns, self, children, filter_pattern, buckets, tag) ==
    IF children = NoneList
    THEN [ns EXCEPT ![self].fetched = FALSE, ![self].sorted = FALSE]
    ELSE IF buckets
    THEN LET fresh == [ns EXCEPT ![self].children = <<>>, ![self].clist = tag]
         IN  [make_buckets(fresh, self, children, 1) EXCEPT
                ![self].fetched = TRUE, ![self].sorted = FALSE]
    ELSE IF children # <<>>
    THEN parse_objpaths(ns, self, children, filter_pattern)
    ELSE ns

---------------------------------------------------------------------------
(* Backend adapter: AzureClient *)

NoneErr == "<None>"         \* _error is None

\* what the SDK call does: it answers with names ("ok") or it raises
\* AzureError / HttpResponseError ("error"). The adapter also handles a
\* KeyError while the names are read ("badresp"); the names are attributes of
\* the SDK's objects, so no listing made for the tree ends that way.
SdkOutcomes(lists) ==
    {[kind |-> "error", names |-> <<>>]} \cup {[kind |-> "ok", names |-> l] : l \in lists}

\* the outcomes the adapter's own code distinguishes
AdapterOutcomes(lists) == SdkOutcomes(lists) \cup {[kind |-> "badresp", names |-> <<>>]}

\* account name and key before init_cred, and after reset
NoCred == <<"None", "None">>

\* no cached connection string, no cached client
NoHandle == <<>>

\* AzureClient.__init__
NewClient == [account |-> NoCred, connection_str |-> NoHandle, client |-> NoHandle]

\* the string the connection_str property builds from the credentials
ConnStr(cred) ==
    <<"DefaultEndpointsProtocol=https", ";AccountName=", cred[1], ";AccountKey=",
      cred[2], ";EndpointSuffix=core.windows.net">>

\* AzureClient.init_cred: the two fields are stored
init_cred(a, params) == [a EXCEPT !.account = params]

\* AzureClient.reload
reload(a) == [a EXCEPT !.client = NoHandle]

\* AzureClient.reset
reset(a) == [reload(a) EXCEPT !.account = NoCred]

\* the connection_str property: built once, then the cached string
connection_str(a) ==
    IF a.connection_str = NoHandle
    THEN [a EXCEPT !.connection_str = ConnStr(a.account)]
    ELSE a

\* the client property: built once from connection_str, then the cached
\* handle; a handle is written as the connection string it was made from
client(a) ==
    IF a.client = NoHandle
    THEN [connection_str(a) EXCEPT !.client = connection_str(a).connection_str]
    ELSE a

\* HttpResponseError is a subclass of AzureError
IsAzureError(kind) == kind \in {"AzureError", "HttpResponseError"}

\* AzureClient.validate_cred: the except clauses in their order
validate_cred(kind) ==
    IF kind = "ok" THEN "True"
    ELSE IF IsAzureError(kind) THEN "None"
    ELSE IF kind = "HttpResponseError" THEN "False"
    ELSE "raised"

\* S3.validate_cred: sts.get_caller_identity() and the except clauses
s3_validate_cred(kind) ==
    IF kind = "ok" THEN "True"
    ELSE IF kind = "EndpointConnectionError" THEN "None"
    ELSE IF kind = "ClientError" THEN "False"
    ELSE "raised"

\* AzureClient.get_object(bucket, obj_path): the data, or None
get_object(sdk, bucket, obj_path) ==
    IF sdk.kind = "error"
    THEN [ret |-> NoneList, error |-> "Failed Azure get_object", raised |-> FALSE]
    ELSE IF sdk.kind = "badresp"
    THEN [ret |-> NoneList, error |-> "Failed to parse response to get_object",
          raised |-> FALSE]
    ELSE [ret |-> sdk.names, error |-> NoneErr, raised |-> FALSE]

\* AzureClient.get_buckets(parent); parent is the master root's name, None,
\* so building the parse-failure text raises before _error is assigned
get_buckets(sdk, parent) ==
    IF sdk.kind = "error"
    THEN [ret |-> NoneList, error |-> "Failed Azure list_containers", raised |-> FALSE]
    ELSE IF sdk.kind = "badresp"
    THEN IF parent = NoneName
         THEN [ret |-> NoneList, error |-> NoneErr, raised |-> TRUE]
         ELSE [ret |-> NoneList,
               error |-> "Failed to parse response to list_containers",
               raised |-> FALSE]
    ELSE [ret |-> sdk.names, error |-> NoneErr, raised |-> FALSE]

\* AzureClient.get_objects(bucket, prefix)
get_objects(sdk, bucket, prefix) ==
    IF sdk.kind = "error"
    THEN [ret |-> NoneList, error |-> "Failed Azure list_blobs", raised |-> FALSE]
    ELSE IF sdk.kind = "badresp"
    THEN [ret |-> NoneList, error |-> "Failed to parse response to list_blobs",
          raised |-> FALSE]
    ELSE [ret |-> sdk.names, error |-> NoneErr, raised |-> FALSE]

---------------------------------------------------------------------------
(* Lazy fetch *)

\* the guard of fetch_children without "and not self._fetched"
fetch_needed_mut(ns, n, cloud_handle) == cloud_handle

\* the guard of fetch_children: "if cloud_handle and not self._fetched"
fetch_needed(ns, n, cloud_handle) == cloud_handle /\ ~ns[n].fetched

\* which backend call fetch_children makes on n, if any
fetch_call(ns, n, cloud_handle) ==
    IF ~fetch_needed(ns, n, cloud_handle) THEN "none"
    ELSE IF is_master_root(ns, n) THEN "get_buckets"
    ELSE IF is_dir(ns, n) /\ get_cloud_call_data(ns, n) # Raised THEN "get_objects"
    ELSE "none"

ResKind(ret) == IF ret = NoneList THEN "none" ELSE "list"

\* a tag for the list object "[]" that a fetch on the master root creates:
\* the tags of the lists built by init_children are positive, and the only
\* other list still referenced is the one the new list replaces
fresh_list(ns, n) == IF ns[n].clist = 0 - 1 THEN 0 - 2 ELSE 0 - 1

\* the tag of the list of buckets, which is built once in the life of a tree
BUCKET_LIST == 0 - 3

\* CloudObj.fetch_children: the heap, the adapter's error text, the call made
\* (with its arguments and answer) and the value returned; e is the error
\* text before the call
fetch_children(ns, n, cloud_handle, filter_pattern, sdk, e) ==
    IF fetch_needed(ns, n, cloud_handle) /\ is_master_root(ns, n)
    THEN LET fresh == [ns EXCEPT ![n].children = <<>>, ![n].clist = fresh_list(ns, n)]
             r == get_buckets(sdk, ns[n].name)
             parsed == parse_children(fresh, n, r.ret, filter_pattern, TRUE,
                                      BUCKET_LIST)
         IN  IF r.raised
             THEN [ns |-> fresh, error |-> r.error, called |-> "get_buckets",
                   args |-> <<ns[n].name>>, res |-> "n/a", keys |-> <<>>,
                   raised |-> TRUE, ret |-> NoneCh, retList |-> 0]
             ELSE [ns |-> parsed, error |-> r.error, called |-> "get_buckets",
                   args |-> <<ns[n].name>>, res |-> ResKind(r.ret), keys |-> r.ret,
                   raised |-> FALSE,
                   ret |-> parsed[n].children, retList |-> parsed[n].clist]
    ELSE IF fetch_needed(ns, n, cloud_handle) /\ is_dir(ns, n)
    THEN IF get_cloud_call_data(ns, n) = Raised
         THEN [ns |-> ns, error |-> e, called |-> "none", args |-> <<>>,
               res |-> "n/a", keys |-> <<>>, raised |-> TRUE,
               ret |-> NoneCh, retList |-> 0]
         ELSE LET cd == get_cloud_call_data(ns, n)
                  r == get_objects(sdk, cd[1], cd[2])
                  parsed == parse_children(ns, n, r.ret, filter_pattern, FALSE, 0)
              IN  [ns |-> parsed, error |-> r.error, called |-> "get_objects",
                   args |-> cd, res |-> ResKind(r.ret), keys |-> r.ret,
                   raised |-> FALSE,
                   ret |-> parsed[n].children, retList |-> parsed[n].clist]
    ELSE [ns |-> ns, error |-> e, called |-> "none", args |-> <<>>,
          res |-> "n/a", keys |-> <<>>, raised |-> FALSE,
          ret |-> ns[n].children, retList |-> ns[n].clist]

BUCKET_ICON == "DEF_BUCKET_ICON"
DIR_ICON == "DEF_DIR_ICON"

\* CloudObj.ui_name_1 with the default icons (the file icon is empty)
ui_name_1(ns, c, o) ==
    IF is_bucket(ns, o) THEN <<BUCKET_ICON, " ">> \o short_name(ns, c, o)
    ELSE IF is_dir(ns, o) THEN <<DIR_ICON, " ">> \o short_name(ns, c, o)
    ELSE short_name(ns, c, o)

\* the children of a tree of either class are named alike
ANY_CLASS == "CloudObj"

\* the list get_dir_list builds from the prepared children
dir_tuples(ns, n) ==
    IF has_children(ns, n)
    THEN [i \in 1..Len(ns[n].children) |->
            <<ui_name_1(ns, ANY_CLASS, ns[n].children[i]), ns[n].children[i]>>]
    ELSE <<>>

\* CloudObj.get_dir_list: fetch_children when the node is not fetched, then
\* the lazy sort and the listing, which is the value returned
get_dir_list(ns, n, cloud_handle, filter_pattern, sdk, e) ==
    LET f == fetch_children(ns, n, cloud_handle /\ ~ns[n].fetched, filter_pattern,
                            sdk, e)
    IN  IF f.raised THEN f
        ELSE [f EXCEPT !.ns = prep_children(f.ns, n),
                       !.ret = dir_tuples(prep_children(f.ns, n), n),
                       !.retList = 0]

---------------------------------------------------------------------------
(* Navigation *)

\* CloudObj.filename: the name, None included
filename(ns, n) == ns[n].name

\* CloudObj.ui_fullpath
RECURSIVE ui_fullpath(_, _, _)
ui_fullpath(ns, c, n) ==
    IF is_master_root(ns, n) THEN short_name(ns, c, n)
    ELSE PathJoin(ui_fullpath(ns, c, ns[n].parent), short_name(ns, c, n))

\* CloudObj.get_path_list: get_path_tuple of every node of the ancestry
get_path_list(ns, c, n) ==
    LET a == get_ancestry(ns, n, <<>>)
    IN  [i \in DOMAIN a |-> <<ui_fullpath(ns, c, a[i]), a[i]>>]

\* CloudObj.find: the first child equal to cloud_obj, and __eq__ compares the
\* names; 0 for None
find(ns, n, cloud_obj) ==
    IF ~has_children(ns, n) THEN 0
    ELSE IF \E i \in DOMAIN ns[n].children :
                ns[ns[n].children[i]].name = ns[cloud_obj].name
    THEN ns[n].children[CHOOSE i \in DOMAIN ns[n].children :
                           /\ ns[ns[n].children[i]].name = ns[cloud_obj].name
                           /\ \A j \in 1..(i - 1) :
                                 ns[ns[n].children[j]].name # ns[cloud_obj].name]
    ELSE 0

\* CloudObj._add that appends without looking for an equal child
add_mut(ns, n, cloud_obj) ==
    [ns |-> [ns EXCEPT ![n].children = Append(Kids(ns, n), cloud_obj),
                       ![n].sorted = FALSE,
                       ![cloud_obj].parent = n],
     ret |-> cloud_obj]

\* CloudObj._add: the equal child when there is one; otherwise cloud_obj is
\* appended (to a new list when the node has none), its parent is set and the
\* node's sorted flag is cleared
add(ns, n, cloud_obj) ==
    IF find(ns, n, cloud_obj) # 0
    THEN [ns |-> ns, ret |-> find(ns, n, cloud_obj)]
    ELSE [ns |-> [ns EXCEPT ![n].children = Append(Kids(ns, n), cloud_obj),
                            ![n].sorted = FALSE,
                            ![cloud_obj].parent = n],
          ret |-> cloud_obj]

---------------------------------------------------------------------------
(* Path lookup *)

\* CloudObj.check_short_name
check_short_name(ns, c, n, short) ==
    IF is_master_root(ns, n) THEN short = MASTER_ROOT_STR(c)
    ELSE short = short_name(ns, c, n)

\* one backend call as the backend saw it, with the filter the caller of the
\* operation asked for
CallOf(n, asked, filter_pattern, f, failedBefore) ==
    [call |-> f.called, node |-> n, args |-> f.args, asked |-> asked,
     filter |-> filter_pattern, res |-> f.res, keys |-> f.keys,
     failedBefore |-> failedBefore]

\* the nodes whose latest listing call returned None, after one more call
FailedAfter(fl, n, f) ==
    IF f.res = "none" THEN fl \cup {n}
    ELSE IF f.res = "list" THEN fl \ {n}
    ELSE fl

\* CloudObj.find_path on node self of a tree of class c. st holds the heap,
\* the adapter's error text, the failed nodes and the latest backend call;
\* asked is the filter of the outermost call and filter_pattern the one this
\* call received. sdks.b answers get_buckets and sdks.o answers get_objects.
\* The result is st with the backend calls made added to made, with ret, the
\* node found (0 for None), and with raised.
RECURSIVE find_path(_, _, _, _, _, _, _, _)
RECURSIVE find_in_children(_, _, _, _, _, _, _, _)

\* the loop "for child in self._children" of find_path, from position i
find_in_children(st, c, self, i, tail_name, cloud_handle, asked, sdks) ==
    IF i > Len(st.ns[self].children) THEN [st EXCEPT !.ret = 0]
    ELSE The({ IF res.raised \/ res.ret # 0 THEN res
               ELSE find_in_children(res, c, self, i + 1, tail_name, cloud_handle,
                                     asked, sdks) :
               res \in {find_path(st, c, st.ns[self].children[i], Strip(tail_name),
                                  cloud_handle, asked, <<>>, sdks)} })

find_path(st, c, self, obj_path, cloud_handle, asked, filter_pattern, sdks) ==
    IF obj_path = <<>> THEN [st EXCEPT !.ret = 0]
    ELSE IF ~StartsWith(obj_path, short_name(st.ns, c, self)) THEN [st EXCEPT !.ret = 0]
    ELSE IF FindSep(Strip(obj_path)) = 0
    THEN [st EXCEPT !.ret = IF check_short_name(st.ns, c, self, obj_path)
                             THEN self ELSE 0]
    ELSE The({ IF after.raised THEN after
               ELSE IF ~has_children(after.ns, self) THEN [after EXCEPT !.ret = self]
               ELSE find_in_children(after, c, self, 1, Split1(Strip(obj_path))[2],
                                     cloud_handle, asked, sdks) :
               after \in { [ns |-> f.ns, error |-> f.error,
                            failed |-> FailedAfter(st.failed, self, f),
                            lastcall |-> IF f.called = "none" THEN st.lastcall
                                         ELSE CallOf(self, asked, filter_pattern, f,
                                                     self \in st.failed),
                            made |-> IF f.called = "none" THEN st.made
                                     ELSE Append(st.made, f.called),
                            ret |-> 0, raised |-> f.raised] :
                   f \in {fetch_children(st.ns, self,
                                         cloud_handle /\ ~st.ns[self].fetched,
                                         filter_pattern,
                                         IF is_master_root(st.ns, self) THEN sdks.b
                                         ELSE sdks.o,
                                         st.error)} } })

---------------------------------------------------------------------------
(* S3Obj and the S3 adapter *)

\* S3Obj.get_s3_path; joining the name None raises
RECURSIVE get_s3_path(_, _)
get_s3_path(ns, n) ==
    IF is_master_root(ns, n) \/ is_bucket(ns, n) THEN <<>>
    ELSE LET up == get_s3_path(ns, ns[n].parent)
         IN  IF up = Raised \/ ns[n].name = NoneName THEN Raised
             ELSE PathJoin(up, ns[n].name)

\* S3Obj.get_s3_call_data: <<bucket, s3_path>>, or the error raised
get_s3_call_data(ns, n) ==
    IF get_bucket(ns, n) = Raised \/ get_s3_path(ns, n) = Raised
    THEN Raised
    ELSE <<get_bucket(ns, n), get_s3_path(ns, n)>>

\* S3Obj.add, the code of CloudObj._add
s3_add(ns, n, s3obj) == add(ns, n, s3obj)

\* S3Obj.make_obj(obj_path, parent): a directory for the first segment when
\* more follows or when the parent is the master root, a leaf otherwise; the
\* parent's add keeps the object or hands back the child of that name (the
\* new object is dropped then), and the rest of the path is made below it
RECURSIVE make_obj(_, _, _)
make_obj(ns, obj_path, parent) ==
    LET i == FindSep(obj_path)
        root == IF i # 0 THEN Split1(obj_path)[1] ELSE obj_path
        tail == IF i # 0 THEN Split1(obj_path)[2] ELSE <<>>
        isdir == i # 0 \/ is_master_root(ns, parent)
        new == Len(ns) + 1
        made == IF isdir THEN make_dir(ns, root, parent)
                ELSE make_elm(ns, obj_path, parent)
        r == s3_add(made, parent, new)
        kept == IF r.ret = new THEN r.ns ELSE SubSeq(r.ns, 1, Len(ns))
    IN  IF tail # <<>> THEN make_obj(kept, tail, r.ret) ELSE kept

\* the loop of S3Obj.parse_children
RECURSIVE make_objs(_, _, _, _)
make_objs(ns, self, children, i) ==
    IF i > Len(children) THEN ns
    ELSE make_objs(make_obj(ns, children[i], self), self, children, i + 1)

\* S3Obj.parse_children
s3_parse_children(ns, self, children) ==
    IF children = NoneList
    THEN [ns EXCEPT ![self].fetched = FALSE, ![self].sorted = FALSE]
    ELSE [make_objs(ns, self, children, 1) EXCEPT
            ![self].fetched = TRUE, ![self].sorted = FALSE]

\* S3.get_buckets(parent)
s3_get_buckets(sdk) ==
    IF sdk.kind = "error"
    THEN [ret |-> NoneList, error |-> "Failed AWS list_backets"]
    ELSE [ret |-> sdk.names, error |-> NoneErr]

\* list_objects_v2(Bucket, Prefix): the keys of the bucket that start with
\* the prefix, as full keys
list_objects_v2(keys, prefix) == SelectSeq(keys, LAMBDA k : StartsWith(k, prefix))

\* S3.get_objects(parent), with the keys the bucket holds
s3_get_objects(sdk, prefix) ==
    IF sdk.kind = "error"
    THEN [ret |-> NoneList, error |-> "Failed AWS list_backets"]
    ELSE [ret |-> list_objects_v2(sdk.names, prefix), error |-> NoneErr]

\* which call S3Obj.fetch_children makes on n, if any
s3_fetch_call(ns, n, s3_handle) ==
    IF ~(s3_handle /\ ~ns[n].fetched) THEN "none"
    ELSE IF is_master_root(ns, n) THEN "get_buckets"
    ELSE IF is_dir(ns, n) THEN "get_objects"
    ELSE "none"

\* S3Obj.fetch_children: the local variable children is assigned in the two
\* branches that call the backend, and parse_children(children) is reached
\* on every path, so without a call the name is unbound and the method raises
s3_fetch_children(ns, n, s3_handle, sdk, e) ==
    IF s3_fetch_call(ns, n, s3_handle) = "get_buckets"
    THEN LET fresh == [ns EXCEPT ![n].children = <<>>]
             r == s3_get_buckets(sdk)
             parsed == s3_parse_children(fresh, n, r.ret)
         IN  [ns |-> parsed, error |-> r.error, called |-> "get_buckets",
              args |-> <<>>, res |-> ResKind(r.ret), keys |-> r.ret,
              raised |-> FALSE, ret |-> parsed[n].children]
    ELSE IF s3_fetch_call(ns, n, s3_handle) = "get_objects"
    THEN IF get_s3_call_data(ns, n) = Raised
         THEN [ns |-> ns, error |-> NoneErr, called |-> "none", args |-> <<>>,
               res |-> "n/a", keys |-> <<>>, raised |-> TRUE, ret |-> NoneCh]
         ELSE LET cd == get_s3_call_data(ns, n)
                  r == s3_get_objects(sdk, cd[2])
                  parsed == s3_parse_children(ns, n, r.ret)
              IN  [ns |-> parsed, error |-> r.error, called |-> "get_objects",
                   args |-> cd, res |-> ResKind(r.ret), keys |-> r.ret,
                   raised |-> FALSE, ret |-> parsed[n].children]
    ELSE [ns |-> ns, error |-> e, called |-> "none", args |-> <<>>,
          res |-> "n/a", keys |-> <<>>, raised |-> TRUE, ret |-> NoneCh]

---------------------------------------------------------------------------
(* Coordinator: FileChooser *)

\* the class of the trees the Azure adapter makes
AZURE_CLASS == "AzureObj"

\* the path None
NoPath == <<"None">>

\* no entry of _sources_backup
Missing == <<"missing">>

\* os.getcwd(), the default path of a new FileChooser
LOCAL_PATH == <<"/", "h", "o", "m", "e">>

\* the chooser's filter_pattern: the default, None
FILTER_PATTERN == <<>>

\* the credentials widget holds a value in every field
is_set(cred) == cred[1] # "None" /\ cred[2] # "None"

\* get_master_root that hands out the master root made before, if any
get_master_root_mut(ns) ==
    IF \E n \in Ids(ns) : is_master_root(ns, n)
    THEN [ns |-> ns, root |-> CHOOSE n \in Ids(ns) : is_master_root(ns, n)]
    ELSE [ns |-> Append(ns, NewObj(NoneName, NoParent, TRUE)), root |-> Len(ns) + 1]

\* AzureClient.get_master_root: AzureObj.make_root(), a new object each time
get_master_root(ns) ==
    [ns |-> Append(ns, NewObj(NoneName, NoParent, TRUE)), root |-> Len(ns) + 1]

\* the tree part of the state st of a handler, as find_path takes it
TreeOf(st) ==
    [ns |-> st.ns, error |-> st.error, failed |-> st.failed,
     lastcall |-> st.lastcall, made |-> st.made, ret |-> 0, raised |-> FALSE]

\* st after find_path has left the tree part t
WithTree(st, t) ==
    [st EXCEPT !.ns = t.ns, !.error = t.error, !.failed = t.failed,
               !.lastcall = t.lastcall, !.made = t.made, !.raised = t.raised]

\* the adapter after the backend calls made: get_buckets reads the client
\* property, get_objects the connection string
RECURSIVE AzAfter(_, _)
AzAfter(a, made) ==
    IF made = <<>> THEN a
    ELSE AzAfter(IF Head(made) = "get_buckets" THEN client(a) ELSE connection_str(a),
                 Tail(made))

\* FileChooser._init_cloud / _init_azure: the cached client with its
\* credentials put back into the widget, or a new client given the widget's
\* values
init_cloud(st) ==
    IF st.fc.source = "LOCAL" THEN [st EXCEPT !.fc.cloud = FALSE]
    ELSE IF st.fc.cached
    THEN [st EXCEPT !.fc.cloud = TRUE, !.fc.cred = st.az.account]
    ELSE [st EXCEPT !.fc.cloud = TRUE, !.fc.cached = TRUE,
                    !.az = init_cred(NewClient, st.fc.cred)]

\* FileChooser._deactivate: the change handlers of the path dropdown, the
\* directory listing and the filename field are detached
deactivate(st) == [st EXCEPT !.fc.observed = FALSE]

\* FileChooser._activate: the change handlers are attached
activate(st) == [st EXCEPT !.fc.observed = TRUE]

\* the coordinator assigns the options or the value of the path dropdown, the
\* directory listing or the filename field: exposed tells whether any such
\* assignment of the handler was made while the change handlers are attached
assigned(st) == The({ [s EXCEPT !.fc.exposed = @ \/ s.fc.observed] : s \in {st} })

\* _callback is None: no callback is registered
NoCallback == [params |-> "n/a", does |-> "n/a"]

\* FileChooser._update_widgets_on_set: which buttons can be clicked
update_widgets_on_set(st, is_valid_file, is_file, deactivate_dialog) ==
    The({
        IF deactivate_dialog
        THEN [s EXCEPT !.fc.select_disabled = FALSE, !.fc.cancel_disabled = TRUE,
                       !.fc.read_disabled = TRUE, !.fc.save_disabled = TRUE]
        ELSE IF is_valid_file
        THEN [s EXCEPT !.fc.select_disabled = FALSE, !.fc.cancel_disabled = FALSE,
                       !.fc.read_disabled = FALSE,
                       !.fc.save_disabled = (s.fc.data = "None")]
        ELSE [s EXCEPT !.fc.select_disabled = s.fc.shown,
                       !.fc.cancel_disabled = FALSE,
                       !.fc.read_disabled = TRUE,
                       !.fc.save_disabled = (~is_file \/ s.fc.data = "None")] :
        s \in {st} })

\* FileChooser._clear_form_values
clear_form_values(st, clear_access_cred) ==
    LET c == [assigned(st) EXCEPT !.fc.pathlist = 0, !.fc.local_pathlist = NoPath,
                                  !.fc.dircontent = <<>>,
                                  !.fc.filename = <<>>, !.fc.label = "nofile"]
    IN  IF clear_access_cred THEN init_cloud([c EXCEPT !.fc.cred = NoCred]) ELSE c

leave_dirup_mut(ns, p, fname) ==
    IF is_dirup(ns, p)
    THEN [path |-> ns[ns[p].parent].parent, filename |-> fname]
    ELSE [path |-> p, filename |-> fname]

\* "if path.is_dirup()" of _set_form_values_cloud: the path and the filename
\* the form is set from
leave_dirup(ns, p, fname) ==
    IF is_dirup(ns, p)
    THEN [path |-> ns[ns[p].parent].parent, filename |-> <<>>]
    ELSE [path |-> p, filename |-> fname]

\* the end of _set_form_values_cloud ("if proceed"): a dirup marker stands
\* for the parent of its container, with the filename cleared; the path
\* list, the directory listing and the filename are set, and the label tells
\* whether the node is fetched
show_path(st, p, fname, sdks) ==
    LET path == leave_dirup(st.ns, p, fname).path
        shown == leave_dirup(st.ns, p, fname).filename
    IN  The({ [assigned(st) EXCEPT
                 !.ns = g.ns, !.error = g.error,
                 !.failed = FailedAfter(st.failed, path, g),
                 !.lastcall = IF g.called = "none" THEN st.lastcall
                              ELSE CallOf(path, FILTER_PATTERN, FILTER_PATTERN, g,
                                          path \in st.failed),
                 !.made = IF g.called = "none" THEN st.made
                          ELSE Append(st.made, g.called),
                 !.raised = g.raised,
                 !.fc.pathlist = path,
                 !.fc.dircontent = IF g.raised THEN @
                                   ELSE [i \in DOMAIN g.ret |-> g.ret[i][2]],
                 !.fc.filename = IF g.raised THEN @ ELSE shown,
                 !.fc.label = IF g.raised THEN @
                              ELSE IF ~g.ns[path].fetched THEN "cloud_error"
                              ELSE "nofile"] :
              g \in {get_dir_list(st.ns, path, TRUE, FILTER_PATTERN,
                                  IF is_master_root(st.ns, path) THEN sdks.b
                                  ELSE sdks.o,
                                  st.error)} })

\* the filename None stands for the empty one
FilenameOf(path) == IF path.filename = NoneName THEN <<>> ELSE path.filename

\* the filename of the entry selected in the directory listing, None when
\* none is: the form selects the entry that has the filename shown
SelectedFilename(st) ==
    IF /\ st.fc.filename # <<>>
       /\ \E i \in DOMAIN st.fc.dircontent :
             filename(st.ns, st.fc.dircontent[i]) = st.fc.filename
    THEN st.fc.filename
    ELSE NoneName

\* "dir_obj and path_obj and path_obj.ui_fullpath() == path and
\* dir_obj.filename() == filename": the form shows the path with the file
\* selected
shows_selection(st, path) ==
    /\ st.fc.pathlist # 0
    /\ SelectedFilename(st) # NoneName
    /\ ui_fullpath(st.ns, AZURE_CLASS, st.fc.pathlist) = path.str
    /\ SelectedFilename(st) = FilenameOf(path)

\* FileChooser._set_form_values_cloud with credentials; path is None (kind
\* "none"), a path string (kind "str") or a node (kind "obj"), and comes
\* with the filename. A path string is looked up from a new master root,
\* unless the form shows that path with that file selected. The result is
\* the node to show with the filename, and proceed, which is FALSE when the
\* lookup raised.
form_target(s1, path, sdks) ==
    IF path.kind = "obj"
    THEN [st |-> s1, path |-> path.obj, filename |-> FilenameOf(path),
          proceed |-> TRUE]
    ELSE IF path.kind = "str" /\ shows_selection(s1, path)
    THEN [st |-> s1, path |-> s1.fc.pathlist, filename |-> FilenameOf(path),
          proceed |-> TRUE]
    ELSE The({
        IF path.kind = "none"
        THEN [st |-> [s1 EXCEPT !.ns = r.ns], path |-> r.root, filename |-> <<>>,
              proceed |-> TRUE]
        ELSE The({
            IF t.raised
            THEN [st |-> WithTree(s1, t), path |-> 0, filename |-> <<>>,
                  proceed |-> FALSE]
            ELSE IF t.ret = 0
            THEN [st |-> clear_form_values(WithTree(s1, t), TRUE),
                  path |-> r.root, filename |-> FilenameOf(path),
                  proceed |-> TRUE]
            ELSE [st |-> WithTree(s1, t), path |-> t.ret,
                  filename |-> FilenameOf(path), proceed |-> TRUE] :
            t \in {find_path(TreeOf([s1 EXCEPT !.ns = r.ns]), AZURE_CLASS,
                             r.root, path.str, TRUE, <<>>, <<>>, sdks)} }) :
        r \in {get_master_root(s1.ns)} })

\* the end of _set_form_values_cloud: "if proceed", the node is shown
set_form(st, path, sdks) ==
    The({ IF t.proceed THEN show_path(t.st, t.path, t.filename, sdks) ELSE t.st :
          t \in {The({ form_target(s1, path, sdks) :
                       s1 \in {IF ~st.fc.cloud THEN init_cloud(st) ELSE st} })} })

\* FileChooser._set_form_values_cloud: nothing is done without credentials;
\* the buttons are set last, from the filename shown
set_form_values_cloud(st, path, sdks) ==
    The({ IF ~is_set(s.fc.cred) THEN s
          ELSE The({ IF r.raised THEN r
                     ELSE update_widgets_on_set(r, r.fc.filename # <<>>,
                                                r.fc.filename # <<>>, FALSE) :
                     r \in {set_form(s, path, sdks)} }) :
          s \in {st} })

---------------------------------------------------------------------------
(* The local form: paths of the file system *)

\* the file system the local form looks at: the working directory with a
\* subdirectory, a file and a symbolic link to a directory outside it
SUB_DIR == LOCAL_PATH \o <<"/", "d">>
OUTSIDE == <<"/", "o">>
LINK == LOCAL_PATH \o <<"/", "l">>
FILE == LOCAL_PATH \o <<"/", "f">>
LocalDirs == {<<"/">>, LOCAL_PATH, SUB_DIR, OUTSIDE}
LocalFiles == {FILE}

\* os.pardir
PARDIR == <<".", ".">>

\* os.path.isabs
isabs(p) == p # <<>> /\ p[1] = SEP

\* sub in s, of strings
Contains(s, sub) ==
    \E i \in 1..(Len(s) - Len(sub) + 1) : SubSeq(s, i, i + Len(sub) - 1) = sub

\* s.lstrip(os.sep)
RECURSIVE LStrip(_)
LStrip(s) ==
    The({ IF t # <<>> /\ Head(t) = SEP THEN LStrip(Tail(t)) ELSE t : t \in {s} })

\* s.rstrip(os.sep)
RECURSIVE RStrip(_)
RStrip(s) ==
    The({ IF t # <<>> /\ t[Len(t)] = SEP THEN RStrip(SubSeq(t, 1, Len(t) - 1))
          ELSE t : t \in {s} })

\* os.path.split: <<head, tail>>, the tail being what follows the last
\* separator; the separators at the end of the head are dropped unless the
\* head holds nothing else
path_split(p) ==
    The({ <<IF RStrip(SubSeq(p, 1, i)) = <<>> THEN SubSeq(p, 1, i)
            ELSE RStrip(SubSeq(p, 1, i)),
            SubSeq(p, i + 1, Len(p))>> :
          i \in {IF \A k \in 1..Len(p) : p[k] # SEP THEN 0
                 ELSE CHOOSE k \in 1..Len(p) :
                         p[k] = SEP /\ \A j \in (k+1)..Len(p) : p[j] # SEP} })

\* os.path.dirname and os.path.basename
dirname(p) == path_split(p)[1]

basename(p) == path_split(p)[2]

\* the components of a path that are neither empty nor "."
Parts(p) == SelectSeq(SplitAll(p), LAMBDA c : c # <<>> /\ c # <<".">>)

\* os.sep.join(parts)
RECURSIVE SepJoin(_)
SepJoin(parts) ==
    The({ IF ps = <<>> THEN <<>>
          ELSE IF Len(ps) = 1 THEN ps[1]
          ELSE ps[1] \o <<SEP>> \o SepJoin(Tail(ps)) : ps \in {parts} })

\* os.path.commonpath([p, q]) of two paths that are both absolute or both
\* relative: the longest common run of leading components
commonpath(p, q) ==
    The({ (IF isabs(p) THEN <<SEP>> ELSE <<>>)
          \o SepJoin(SubSeq(a, 1, CHOOSE k \in 0..Len(a) :
                /\ k <= Len(b)
                /\ \A j \in 1..k : a[j] = b[j]
                /\ (k < Len(a) /\ k < Len(b) => a[k+1] # b[k+1]))) :
          a \in {Parts(p)}, b \in {Parts(q)} })

\* the components of a path with ".." and the symbolic link resolved, done
\* being the resolved ones
RECURSIVE Resolve(_, _)
Resolve(done, rest) ==
    The({ IF r = <<>> THEN d
          ELSE IF Head(r) = PARDIR
          THEN Resolve(SubSeq(d, 1, Len(d) - 1), Tail(r))
          ELSE IF <<SEP>> \o SepJoin(Append(d, Head(r))) = LINK
          THEN Resolve(Parts(OUTSIDE), Tail(r))
          ELSE Resolve(Append(d, Head(r)), Tail(r)) :
          d \in {done}, r \in {rest} })

\* os.path.realpath: absolute, from the working directory for a relative
\* path, without "." and "..", the symbolic link followed
realpath(p) ==
    The({ <<SEP>> \o SepJoin(Resolve(IF isabs(q) THEN <<>> ELSE Parts(LOCAL_PATH),
                                     Parts(q))) : q \in {p} })

\* os.path.isdir
isdir(p) == \E q \in {p} : q # <<>> /\ realpath(q) \in LocalDirs

\* os.path.isfile
isfile(p) == \E q \in {p} : q # <<>> /\ realpath(q) \in LocalFiles

\* the entries of the file system, each with its directory and its name
Entries ==
    { <<dirname(x), basename(x)>> :
      x \in (LocalDirs \cup LocalFiles \cup {LINK}) \ {<<SEP>>} }

\* os.listdir of a directory
listdir(p) ==
    The({ { e[2] : e \in { x \in Entries : x[1] = rp } } : rp \in {realpath(p)} })

\* sorted(names)
RECURSIVE sorted(_)
sorted(S) ==
    The({ IF T = {} THEN <<>>
          ELSE The({ <<m>> \o sorted(T \ {m}) :
                     m \in {CHOOSE x \in T : \A y \in T \ {x} : StrLess(x, y)} }) :
          T \in {S} })

\* utils.get_subpaths: the path and the paths above it
RECURSIVE walk_up(_)
walk_up(p) ==
    The({ <<q>> \o (IF basename(q) = <<>> THEN <<>> ELSE walk_up(dirname(q))) :
          q \in {p} })

get_subpaths(path) == walk_up(IF isfile(path) THEN dirname(path) ELSE path)

\* utils.has_parent
has_parent(path) == basename(path) # <<>>

\* utils.has_parent_path: "True" without a parent path; commonpath raises
\* ValueError when one path is absolute and the other is not
has_parent_path(path, parent_path) ==
    IF parent_path = NoPath \/ parent_path = <<>> THEN "True"
    ELSE IF isabs(path) # isabs(parent_path) THEN "ValueError"
    ELSE IF commonpath(path, parent_path) = parent_path THEN "True"
    ELSE "False"

\* utils.strip_parent_path
strip_parent_path(path, parent_path) ==
    IF parent_path # NoPath /\ parent_path # <<>> /\ StartsWith(path, parent_path)
    THEN SubSeq(path, Len(parent_path) + 1, Len(path))
    ELSE path

\* utils.get_dir_contents with the defaults of the chooser (hidden entries
\* are left out, no icons, no filter): the directories, with ".." when the
\* path has a parent below top_path, then the files, each sorted
get_dir_contents(path, top_path) ==
    IF ~isdir(path) THEN <<>>
    ELSE The({
        The({ sorted(dirs \cup (IF has_parent(strip_parent_path(path, top_path))
                                THEN {PARDIR} ELSE {}))
              \o sorted(items \ dirs) :
              dirs \in {{i \in items : isdir(PathJoin(path, i))}} }) :
        items \in {{i \in listdir(path) : i[1] # "."}} })

\* utils.is_valid_filename
is_valid_filename(fname) == ~Contains(fname, PARDIR) /\ ~Contains(fname, <<SEP>>)

\* utils.normalize_path: the real path, InvalidPathError (Raised) when it is
\* no directory
normalize_path(path) ==
    The({ IF isdir(rp) THEN rp ELSE Raised : rp \in {realpath(path)} })

---------------------------------------------------------------------------
(* The local form *)

\* "if self._sandbox_path": a sandbox path is set
sandboxed(c) == c.sandbox_path # NoPath /\ c.sandbox_path # <<>>

\* an exception of class e leaves the handler
raise(st, e) == [st EXCEPT !.raised = TRUE, !.exc = e]

\* FileChooser._has_parent_path: no verification for cloud sources
chooser_has_parent_path(c, path, parent_path) ==
    IF c.source = "LOCAL" THEN has_parent_path(path, parent_path) ELSE "True"

\* FileChooser._normalize_path
chooser_normalize_path(c, path) ==
    IF c.source = "LOCAL" THEN normalize_path(path) ELSE path

\* FileChooser._expand_path: the full path of a value of the path dropdown
expand_path(c, path) ==
    IF path # NoPath /\ sandboxed(c)
    THEN IF path = <<>> THEN c.default_path
         ELSE PathJoin(c.sandbox_path, LStrip(path))
    ELSE path

\* FileChooser._restrict_path: the path as shown under the sandbox path
restrict_path(c, path) ==
    IF c.sandbox_path = <<SEP>> THEN path
    ELSE IF c.sandbox_path = path THEN <<SEP>>
    ELSE IF sandboxed(c) THEN strip_parent_path(path, c.sandbox_path)
    ELSE path

\* the real names of the directory listing of the form
LocalNames(c) ==
    IF c.local_pathlist = NoPath THEN <<>>
    ELSE get_dir_contents(expand_path(c, c.local_pathlist), c.sandbox_path)

\* the real name of the entry selected in the directory listing, None when
\* none is: the form selects the file that has the filename shown
LocalSelected(c) ==
    IF /\ \E names \in {LocalNames(c)} :
             \E i \in DOMAIN names : names[i] = c.filename
       /\ isfile(PathJoin(expand_path(c, c.local_pathlist), c.filename))
    THEN c.filename
    ELSE NoneName

set_form_values_local_mut(st, path, fname) ==
    The({
        LET p == IF path = NoPath THEN s.fc.default_path ELSE path
        IN  IF ~isdir(p) THEN raise(s, "OSError")
            ELSE The({
                IF ~w.fc.shown THEN w
                ELSE update_widgets_on_set(
                        w,
                        ~( \/ /\ \E names \in {get_dir_contents(p, s.fc.sandbox_path)} :
                                 \E i \in DOMAIN names : names[i] = fname
                              /\ isdir(PathJoin(p, fname))
                           \/ ~is_valid_filename(fname)
                           \/ /\ w.fc.selected_path # NoPath
                              /\ w.fc.selected_filename # NoneName
                              /\ PathJoin(p, fname)
                                    = PathJoin(w.fc.selected_path,
                                               w.fc.selected_filename) ),
                        fname # <<>>, FALSE) :
                w \in {[assigned(s) EXCEPT !.fc.local_pathlist = restrict_path(s.fc, p),
                                           !.fc.filename = fname]} }) :
        s \in {st} })

\* FileChooser._set_form_values_local: a path outside the sandbox path
\* raises ParentPathError, and a path that is no directory makes os.listdir
\* raise; the path dropdown and the filename are set, and while the dialog
\* is shown the buttons are set from the filename
set_form_values_local(st, path, fname) ==
    The({
        LET p == IF path = NoPath THEN s.fc.default_path ELSE path
        IN  IF inside = "ValueError" THEN raise(s, "ValueError")
            ELSE IF inside = "False" THEN raise(s, "ParentPathError")
            ELSE IF ~isdir(p) THEN raise(s, "OSError")
            ELSE The({
                IF ~w.fc.shown THEN w
                ELSE update_widgets_on_set(
                        w,
                        ~( \/ /\ \E names \in {get_dir_contents(p, s.fc.sandbox_path)} :
                                 \E i \in DOMAIN names : names[i] = fname
                              /\ isdir(PathJoin(p, fname))
                           \/ ~is_valid_filename(fname)
                           \/ /\ w.fc.selected_path # NoPath
                              /\ w.fc.selected_filename # NoneName
                              /\ PathJoin(p, fname)
                                    = PathJoin(w.fc.selected_path,
                                               w.fc.selected_filename) ),
                        fname # <<>>, FALSE) :
                w \in {[assigned(s) EXCEPT !.fc.local_pathlist = restrict_path(s.fc, p),
                                           !.fc.filename = fname]} }) :
        s \in {st},
        inside \in {IF sandboxed(st.fc)
                    THEN chooser_has_parent_path(
                             st.fc,
                             IF path = NoPath THEN st.fc.default_path ELSE path,
                             st.fc.sandbox_path)
                    ELSE "True"} })

\* FileChooser._check_integrity for the local source: "True" while the
\* path dropdown has no value; otherwise its value is a string, and
\* obj.check_cloud raises AttributeError unless the path or the value is
\* empty
check_integrity(c, path) ==
    IF c.local_pathlist = NoPath THEN "True"
    ELSE IF path # <<>> /\ c.local_pathlist # <<>> THEN "AttributeError"
    ELSE "False"

\* the arguments of _set_form_values for a path string
path_str(p, fname) == [kind |-> "str", str |-> p, obj |-> 0, filename |-> fname]

---------------------------------------------------------------------------
(* Coordinator: the form of either source *)

\* FileChooser._set_form_values: the handlers are detached, the form is
\* set, and the handlers are attached in the finally clause
set_form_values(st, path, sdks) ==
    The({ activate(IF s.fc.source = "LOCAL"
                   THEN set_form_values_local(s, path.str, FilenameOf(path))
                   ELSE set_form_values_cloud(s, path, sdks)) :
          s \in {deactivate(st)} })

\* FileChooser._backup_source
backup_source(st, old) ==
    IF old = "LOCAL"
    THEN [st EXCEPT !.fc.backup.LOCAL = expand_path(st.fc, st.fc.local_pathlist),
                    !.fc.backup_filename.LOCAL = LocalSelected(st.fc)]
    ELSE IF st.fc.pathlist = 0
    THEN [st EXCEPT !.fc.backup.AZURE = NoPath,
                    !.fc.backup_filename.AZURE = SelectedFilename(st)]
    ELSE IF get_cloud_path_with_bucket(st.ns, AZURE_CLASS, st.fc.pathlist) = Raised
    THEN [st EXCEPT !.raised = TRUE]
    ELSE [st EXCEPT !.fc.backup.AZURE =
                        get_cloud_path_with_bucket(st.ns, AZURE_CLASS, st.fc.pathlist),
                    !.fc.backup_filename.AZURE = SelectedFilename(st)]

reset_chooser_mut(st, path, fname, sdks) ==
    The({
        LET checked == path # NoPath /\ sandboxed(s.fc)
            inside == IF checked /\ n # Raised
                      THEN chooser_has_parent_path(s.fc, n, s.fc.sandbox_path)
                      ELSE "True"
            h == [s EXCEPT !.fc.selected_path = NoPath,
                           !.fc.selected_filename = NoneName,
                           !.fc.shown = FALSE,
                           !.fc.select_disabled = FALSE,
                           !.fc.read_disabled = (path = NoPath \/ fname = NoneName),
                           !.fc.save_disabled = (path = NoPath \/ fname = NoneName)]
            d == IF path = NoPath THEN h ELSE [h EXCEPT !.fc.default_path = n]
            e == IF fname = NoneName THEN d ELSE [d EXCEPT !.fc.default_filename = fname]
        IN  IF checked /\ n = Raised THEN raise(s, "InvalidPathError")
            ELSE IF inside = "ValueError" THEN raise(s, "ValueError")
            ELSE IF inside = "False" THEN raise(s, "ParentPathError")
            ELSE IF fname # NoneName /\ ~is_valid_filename(fname)
            THEN raise(s, "InvalidFileNameError")
            ELSE IF n = Raised THEN raise(h, "InvalidPathError")
            ELSE The({ set_form_values(c, path_str(c.fc.default_path,
                                                   c.fc.default_filename), sdks) :
                       c \in {clear_form_values(e, TRUE)} }) :
        s \in {st},
        n \in {IF path = NoPath THEN NoPath
               ELSE chooser_normalize_path(st.fc, path)} })

reset_chooser_late(st, path, fname, sdks) ==
    The({
        LET checked == path # NoPath /\ sandboxed(s.fc)
            inside == IF checked /\ n # Raised
                      THEN chooser_has_parent_path(s.fc, n, s.fc.sandbox_path)
                      ELSE "True"
            h == [s EXCEPT !.fc.selected_path = NoPath,
                           !.fc.selected_filename = NoneName,
                           !.fc.shown = FALSE,
                           !.fc.description = "Select",
                           !.fc.select_disabled = FALSE,
                           !.fc.read_disabled = (path = NoPath \/ fname = NoneName),
                           !.fc.save_disabled = (path = NoPath \/ fname = NoneName)]
            d == IF path = NoPath THEN h ELSE [h EXCEPT !.fc.default_path = n]
            e == IF fname = NoneName THEN d ELSE [d EXCEPT !.fc.default_filename = fname]
        IN  IF checked /\ n = Raised THEN raise(s, "InvalidPathError")
            ELSE IF inside = "ValueError" THEN raise(s, "ValueError")
            ELSE IF inside = "False" THEN raise(h, "ParentPathError")
            ELSE IF fname # NoneName /\ ~is_valid_filename(fname)
            THEN raise(h, "InvalidFileNameError")
            ELSE IF n = Raised THEN raise(h, "InvalidPathError")
            ELSE The({ set_form_values(c, path_str(c.fc.default_path,
                                                   c.fc.default_filename), sdks) :
                       c \in {clear_form_values(e, TRUE)} }) :
        s \in {st},
        n \in {IF path = NoPath THEN NoPath
               ELSE chooser_normalize_path(st.fc, path)} })

\* FileChooser.reset(path, filename): a path outside the sandbox path
\* raises ParentPathError and an invalid filename InvalidFileNameError;
\* then the selection is removed, the dialog is hidden, the Select button
\* gets its first description, the default path and filename are replaced
\* by those that are not None, the form and the credentials are cleared,
\* and the form is set from the defaults. _normalize_path raises
\* InvalidPathError for a local path that is no directory.
reset_chooser(st, path, fname, sdks) ==
    The({
        LET checked == path # NoPath /\ sandboxed(s.fc)
            inside == IF checked /\ n # Raised
                      THEN chooser_has_parent_path(s.fc, n, s.fc.sandbox_path)
                      ELSE "True"
            h == [s EXCEPT !.fc.selected_path = NoPath,
                           !.fc.selected_filename = NoneName,
                           !.fc.shown = FALSE,
                           !.fc.description = "Select",
                           !.fc.select_disabled = FALSE,
                           !.fc.read_disabled = (path = NoPath \/ fname = NoneName),
                           !.fc.save_disabled = (path = NoPath \/ fname = NoneName)]
            d == IF path = NoPath THEN h ELSE [h EXCEPT !.fc.default_path = n]
            e == IF fname = NoneName THEN d ELSE [d EXCEPT !.fc.default_filename = fname]
        IN  IF checked /\ n = Raised THEN raise(s, "InvalidPathError")
            ELSE IF inside = "ValueError" THEN raise(s, "ValueError")
            ELSE IF inside = "False" THEN raise(s, "ParentPathError")
            ELSE IF fname # NoneName /\ ~is_valid_filename(fname)
            THEN raise(s, "InvalidFileNameError")
            ELSE IF n = Raised THEN raise(h, "InvalidPathError")
            ELSE The({ set_form_values(c, path_str(c.fc.default_path,
                                                   c.fc.default_filename), sdks) :
                       c \in {clear_form_values(e, TRUE)} }) :
        s \in {st},
        n \in {IF path = NoPath THEN NoPath
               ELSE chooser_normalize_path(st.fc, path)} })

\* FileChooser._update_gridbox: the grid is laid out and made visible
update_gridbox(st) == [st EXCEPT !.fc.shown = TRUE]

\* FileChooser._process_source_change(old, new); the source list already
\* shows new, and the credentials widget is made anew
process_source_change(st, old, new, sdks) ==
    The({
        IF b.raised THEN b
        ELSE The({ IF r.raised THEN r ELSE update_gridbox(r) :
                   r \in {reset_chooser(b,
                                        IF b.fc.backup[new] = Missing THEN NoPath
                                        ELSE b.fc.backup[new],
                                        IF b.fc.backup[new] = Missing THEN NoneName
                                        ELSE b.fc.backup_filename[new],
                                        sdks)} }) :
        b \in {backup_source([st EXCEPT !.fc.source = new, !.fc.cred = NoCred],
                             old)} })

\* FileChooser._validate_cred with the values of the widget: init_cred, then
\* validate_cred, which reads the client property; what building the client
\* does is kind. An exception of another kind is caught and gives False.
validate(st, kind) ==
    LET a == init_cred(st.az, st.fc.cred)
        v == IF a.client # NoHandle THEN "True" ELSE validate_cred(kind)
    IN  [st |-> [activate(st) EXCEPT !.az = IF kind = "ok" \/ a.client # NoHandle
                                            THEN client(a) ELSE connection_str(a)],
         res |-> IF v = "raised" THEN "False" ELSE v]

\* FileChooser._process_access_cred_change, given what _validate_cred
\* returned
process_access_cred_change(st, res, sdks) ==
    IF res = "True"
    THEN set_form_values(st, [kind |-> "none", str |-> NoPath, obj |-> 0,
                              filename |-> NoneName], sdks)
    ELSE [st EXCEPT !.fc.label = "invalid_cred"]

\* FileChooser._close_dialog(select)
close_dialog(st, select) ==
    The({ update_widgets_on_set(
              [s EXCEPT !.fc.shown = FALSE,
                        !.fc.description = IF select THEN "Change" ELSE @],
              select, s.fc.filename # <<>>, TRUE) :
          s \in {st} })

\* FileChooser._apply_selection_cloud: the path of the node shown and the
\* filename become the selection, and the dialog is closed when both are
\* not empty; without a node shown, _pathlist.value is None and the call
\* raises AttributeError
apply_selection_cloud(st) ==
    The({
        IF s.fc.pathlist = 0 THEN [s EXCEPT !.raised = TRUE]
        ELSE The({
            IF p = Raised THEN [s EXCEPT !.raised = TRUE]
            ELSE IF p # <<>> /\ s.fc.filename # <<>>
            THEN [close_dialog([s EXCEPT !.fc.selected_path = p,
                                         !.fc.selected_filename = s.fc.filename],
                               TRUE) EXCEPT !.fc.label = "selected"]
            ELSE [s EXCEPT !.fc.selected_path = p,
                           !.fc.selected_filename = s.fc.filename] :
            p \in {get_cloud_path_with_bucket(s.ns, AZURE_CLASS, s.fc.pathlist)} }) :
        s \in {st} })

\* FileChooser._apply_selection_local: the directory shown and the filename
\* become the selection, and the dialog is closed; the label tells whether
\* the file exists
apply_selection_local(st) ==
    The({
        LET p == expand_path(s.fc, s.fc.local_pathlist)
            t == [s EXCEPT !.fc.selected_path = p,
                           !.fc.selected_filename = s.fc.filename]
        IN  IF p = NoPath THEN t
            ELSE [close_dialog(t, TRUE) EXCEPT
                     !.fc.label = IF isfile(PathJoin(p, s.fc.filename))
                                  THEN "selected" ELSE "selected_new"] :
        s \in {st} })

\* the property FileChooser.selected: the selected path joined with the
\* selected filename, None unless both are set
selected(c) ==
    IF c.selected_path # NoPath /\ c.selected_filename # NoneName
    THEN PathJoin(c.selected_path, c.selected_filename)
    ELSE NoPath

\* FileChooser._apply_selection
apply_selection(st) ==
    IF st.fc.source = "LOCAL" THEN apply_selection_local(st)
    ELSE apply_selection_cloud(st)

\* os.extsep + "json"
JSON_EXT == <<".", "j", "s", "o", "n">>

\* utils.read_data as FileChooser._on_read_click calls it for the local
\* source (read_json): the data of the selected file, None with an error
\* text when the file cannot be opened; os.path.join raises TypeError
\* without a selected path
read_local_data(st) ==
    IF st.fc.selected_path = NoPath THEN raise(st, "TypeError")
    ELSE [st EXCEPT !.fc.data =
            IF isfile(PathJoin(st.fc.selected_path, st.fc.selected_filename))
            THEN "data" ELSE "None"]

\* utils.save_data as FileChooser._on_save_click calls it for the local
\* source (save_json, overwrite off): the file named by the selected path,
\* the selected filename and the extension is made, unless it exists or its
\* directory does not, which gives an error text; wrote is the file made,
\* which the listings of the form do not show
save_local_data(st) ==
    IF st.fc.selected_path = NoPath THEN raise(st, "TypeError")
    ELSE LET full == PathJoin(st.fc.selected_path,
                              st.fc.selected_filename \o JSON_EXT)
         IN  IF /\ isdir(dirname(full))
                /\ ~isdir(full)
                /\ ~isfile(full)
             THEN [st EXCEPT !.wrote = realpath(full)]
             ELSE st

\* FileChooser._show_dialog: the dialog is shown, and the form is set from
\* the selection if there is one, from the defaults otherwise
show_dialog(st, sdks) ==
    The({ LET sel == /\ s.fc.selected_path # NoPath
                     /\ s.fc.selected_filename # NoneName
          IN  set_form_values(s, [kind |-> "str",
                                  str |-> IF sel THEN s.fc.selected_path
                                          ELSE s.fc.default_path,
                                  obj |-> 0,
                                  filename |-> IF sel THEN s.fc.selected_filename
                                               ELSE s.fc.default_filename],
                              sdks) :
          s \in {[st EXCEPT !.fc.shown = TRUE]} })

\* one call of the callback with the arguments (with == TRUE) or without:
\* binding the arguments raises TypeError before the body runs when the
\* callback takes none ("none") and gets one, or takes one ("self") and gets
\* none; otherwise the body runs, and returns or raises
call_callback(cb, with) ==
    IF (with /\ cb.params = "none") \/ (~with /\ cb.params = "self")
    THEN [ran |-> 0, result |-> "TypeError"]
    ELSE [ran |-> 1, result |-> cb.does]

\* FileChooser._process_selection: the callback is called with the chooser,
\* and on TypeError once more with no argument; invoked counts the runs of
\* its body
process_selection(st) ==
    The({ IF s.fc.callback = NoCallback THEN s
          ELSE LET c1 == call_callback(s.fc.callback, TRUE)
                   c2 == call_callback(s.fc.callback, FALSE)
               IN  IF c1.result = "TypeError"
                   THEN [s EXCEPT !.invoked = @ + c1.ran + c2.ran,
                                  !.raised = (c2.result # "returns")]
                   ELSE [s EXCEPT !.invoked = @ + c1.ran,
                                  !.raised = (c1.result # "returns")] :
          s \in {st} })

\* FileChooser._on_select_click
on_select_click(st, sdks) ==
    IF ~st.fc.shown THEN show_dialog(st, sdks)
    ELSE The({ IF a.raised THEN a ELSE process_selection(a) :
               a \in {apply_selection(st)} })

\* spec-modelled: read_data of utils_cloud hands back the data read, or None
\* with an error text
read_cloud_data(st, got) == [st EXCEPT !.fc.data = got]

\* FileChooser._on_read_click
on_read_click(st, got) ==
    IF ~st.fc.shown THEN st
    ELSE The({ IF a.raised THEN a
               ELSE The({ IF d.raised THEN d ELSE process_selection(d) :
                          d \in {IF a.fc.source = "LOCAL" THEN read_local_data(a)
                                 ELSE read_cloud_data(a, got)} }) :
               a \in {apply_selection(st)} })

\* FileChooser._on_save_click: saving to a cloud source only warns
on_save_click(st) ==
    IF ~st.fc.shown THEN st
    ELSE The({ IF a.raised THEN a
               ELSE The({ IF d.raised THEN d ELSE process_selection(d) :
                          d \in {IF a.fc.source = "LOCAL" THEN save_local_data(a)
                                 ELSE a} }) :
               a \in {apply_selection(st)} })

on_cancel_click_mut(st) ==
    close_dialog([st EXCEPT !.fc.selected_path = NoPath,
                            !.fc.selected_filename = NoneName], FALSE)

\* FileChooser._on_cancel_click
on_cancel_click(st) == close_dialog(st, FALSE)

\* FileChooser._on_pathlist_select_local: new is the value picked
on_pathlist_select_local(st, new, sdks) ==
    set_form_values(st, path_str(expand_path(st.fc, new), st.fc.filename), sdks)

\* FileChooser._on_dircontent_select_local: a directory becomes the path
\* shown, a file the filename; new is the real name of the entry picked
on_dircontent_select_local(st, new, sdks) ==
    The({ set_form_values(st, IF isdir(new_path)
                              THEN path_str(new_path, st.fc.filename)
                              ELSE path_str(here, new), sdks) :
          here \in {expand_path(st.fc, st.fc.local_pathlist)},
          new_path \in {realpath(PathJoin(expand_path(st.fc, st.fc.local_pathlist),
                                          new))} })

\* FileChooser._on_filename_change_local: new is the text typed
on_filename_change_local(st, new, sdks) ==
    set_form_values(st, path_str(expand_path(st.fc, st.fc.local_pathlist), new),
                    sdks)

\* the setter of FileChooser.default_path, for the local source
set_default_path(st, path, sdks) ==
    The({
        LET inside == IF sandboxed(s.fc) /\ n # Raised
                      THEN chooser_has_parent_path(s.fc, n, s.fc.sandbox_path)
                      ELSE "True"
        IN  IF n = Raised THEN raise(s, "InvalidPathError")
            ELSE IF inside = "ValueError" THEN raise(s, "ValueError")
            ELSE IF inside = "False" THEN raise(s, "ParentPathError")
            ELSE IF check_integrity(s.fc, n) = "AttributeError"
            THEN raise(s, "AttributeError")
            ELSE IF check_integrity(s.fc, n) = "True"
            THEN set_form_values([s EXCEPT !.fc.default_path = n],
                                 path_str(n, s.fc.filename), sdks)
            ELSE [s EXCEPT !.fc.default_path = <<>>] :
        s \in {st},
        n \in {chooser_normalize_path(st.fc, path)} })

---------------------------------------------------------------------------
(* Inputs *)

\* object keys a container may hold: "B", "a/b", "a/c", "a/b/c" and "a//b"
\* (an empty segment)
Keys ==
    { <<"B">>, <<"a", "/", "b">>, <<"a", "/", "c">>,
      <<"a", "/", "b", "/", "c">>, <<"a", "/", "/", "b">> }

BucketNames == { <<"a">>, <<"b">> }

\* lists of at most max distinct elements of S
ListsOf(S, max) ==
    {l \in UNION {[1..k -> S] : k \in 0..max} :
        \A i, j \in DOMAIN l : i # j => l[i] # l[j]}

KeyLists == ListsOf(Keys, MaxKeys)

BucketLists == ListsOf(BucketNames, MaxBuckets)

\* the overlapping lists given to parse_objpaths directly: ["a/b"] and ["a/c"]
ParseLists == ListsOf({<<"a", "/", "b">>, <<"a", "/", "c">>}, 1)

\* what follows the master root's string in the paths looked up: "a",
\* "a/a/b", "a/ab/b" and "a/B/c"
PathTails ==
    { <<"a">>, <<"a", "/", "a", "/", "b">>,
      <<"a", "/", "a", "b", "/", "b">>, <<"a", "/", "B", "/", "c">> }

\* what the backend may list while a path is looked up
LookupBucketLists == {<<>>, << <<"a">> >>, << <<"a">>, <<"b">> >>}
LookupKeyLists == ListsOf({<<"B">>, <<"a", "/", "b">>, <<"a", "/", "c">>}, MaxKeys)

\* the paths looked up in a tree of class c
FindPaths(c) == {MASTER_ROOT_STR(c) \o t : t \in PathTails}

\* filter_pattern: None, or the pattern "b*"
Filters == { <<>>, << <<"b", "*">> >> }

---------------------------------------------------------------------------
(* Behaviour *)

NoCall ==
    [call |-> "none", node |-> 0, args |-> <<>>, asked |-> <<>>, filter |-> <<>>,
     res |-> "n/a", keys |-> <<>>, failedBefore |-> FALSE]


\* FileChooser.__init__ on the local source: no cloud client, an empty
\* credentials widget, no backup; the form shows no cloud node
NewChooser ==
    [source |-> "LOCAL", cred |-> NoCred, cloud |-> FALSE, cached |-> FALSE,
     pathlist |-> 0, dircontent |-> <<>>, filename |-> <<>>, label |-> "nofile",
     backup |-> [LOCAL |-> Missing, AZURE |-> Missing],
     backup_filename |-> [LOCAL |-> NoneName, AZURE |-> NoneName],
     default_path |-> LOCAL_PATH, default_filename |-> NoneName,
     observed |-> TRUE, exposed |-> FALSE,
     shown |-> TRUE, selected_path |-> NoPath, selected_filename |-> NoneName,
     data |-> "None", callback |-> NoCallback,
     select_disabled |-> FALSE, cancel_disabled |-> FALSE,
     read_disabled |-> FALSE, save_disabled |-> TRUE,
     description |-> "Select", sandbox_path |-> NoPath,
     local_pathlist |-> LOCAL_PATH]

\* no event handled yet
NoEvent == [op |-> "none", validation |-> "n/a", old |-> {}, calls |-> 0,
            seen |-> 0, raised |-> FALSE, picked |-> 0, fetched |-> {},
            prev |-> [pathlist |-> 0, filename |-> <<>>], shown |-> TRUE,
            invoked |-> 0, exc |-> "none", wrote |-> NoPath,
            arg |-> [path |-> NoPath, filename |-> NoneName]]

\* no operation of the adapter yet
NoOp == [op |-> "none", ret |-> "n/a", raised |-> FALSE, account |-> NoCred,
         used |-> NoHandle, answer |-> "n/a"]

\* no operation made on a node directly
NoTreeOp ==
    [op |-> "none", node |-> 0, obj |-> 0, name |-> NoneName, ret |-> 0,
     children |-> NoneCh, fetched |-> FALSE, dir |-> FALSE, handle |-> FALSE,
     called |-> "none", raised |-> FALSE]

\* get_master_root(): CloudObj.make_root() or AzureObj.make_root(), and a new
\* AzureClient
Init ==
    /\ nodes = <<NewObj(NoneName, NoParent, TRUE)>>
    /\ error = NoneErr
    /\ failed = {}
    /\ lastcall = NoCall
    /\ az = NewClient
    /\ azcall = NoOp
    /\ fc = NewChooser
    /\ fcop = NoEvent
    /\ treeop = NoTreeOp

\* buckets whose objects have been listed
Listed(ns) == {b \in Ids(ns) : is_bucket(ns, b) /\ ns[b].fetched}

\* a backend that is not called
NoSdk == [kind |-> "error", names |-> <<>>]

\* what the backend may answer when n is operated on with cloud_handle
Outcomes(n, cloud_handle) ==
    IF fetch_call(nodes, n, cloud_handle) = "get_buckets" THEN SdkOutcomes(BucketLists)
    ELSE IF fetch_call(nodes, n, cloud_handle) = "get_objects"
    THEN IF Cardinality(Listed(nodes)) < MaxListings
         THEN SdkOutcomes(KeyLists)
         ELSE SdkOutcomes({<<>>})
    ELSE {NoSdk}

\* the state after an operation on n with outcome f
Done(n, filter_pattern, f) ==
    /\ nodes' = f.ns
    /\ error' = f.error
    /\ failed' = FailedAfter(failed, n, f)
    /\ lastcall' = IF f.called = "none" THEN lastcall
                   ELSE CallOf(n, filter_pattern, filter_pattern, f, n \in failed)
    /\ treeop' = NoTreeOp
    /\ UNCHANGED <<az, azcall, fc, fcop>>

\* n.fetch_children(cloud_handle, filter_pattern)
FetchChildren ==
    \E n \in Ids(nodes), cloud_handle \in BOOLEAN, filter_pattern \in Filters :
      \E sdk \in Outcomes(n, cloud_handle) :
        \E f \in {fetch_children(nodes, n, cloud_handle, filter_pattern, sdk, error)} :
            Done(n, filter_pattern, f)

\* n.get_dir_list(cloud_handle, filter_pattern=filter_pattern)
GetDirList ==
    \E n \in Ids(nodes), cloud_handle \in BOOLEAN, filter_pattern \in Filters :
      \E sdk \in Outcomes(n, cloud_handle) :
        \E f \in {get_dir_list(nodes, n, cloud_handle, filter_pattern, sdk, error)} :
            Done(n, filter_pattern, f)

\* the master root of the tree
ROOT == 1

\* what the backend may answer to the calls of a lookup
LookupOutcomes ==
         {[b |-> x, o |-> y] :
            x \in (IF nodes[ROOT].fetched THEN {NoSdk}
                   ELSE SdkOutcomes(LookupBucketLists)),
            y \in (IF \A n \in Ids(nodes) : is_bucket(nodes, n) => nodes[n].fetched
                   THEN IF nodes[ROOT].fetched THEN {NoSdk} ELSE SdkOutcomes({<<>>})
                   ELSE IF Cardinality(Listed(nodes)) < MaxListings
                   THEN SdkOutcomes(LookupKeyLists)
                   ELSE SdkOutcomes({<<>>}))}

\* root.find_path(obj_path, cloud_handle, filter_pattern) on the tree of the
\* Azure adapter, with the adapter as cloud_handle
FindPath ==
    \E c \in {AZURE_CLASS}, filter_pattern \in Filters :
      \E obj_path \in FindPaths(c), sdks \in LookupOutcomes :
        \E r \in {find_path([ns |-> nodes, error |-> error, failed |-> failed,
                              lastcall |-> lastcall, made |-> <<>>, ret |-> 0,
                              raised |-> FALSE],
                             c, ROOT, obj_path, TRUE, filter_pattern,
                             filter_pattern, sdks)} :
            /\ nodes' = r.ns
            /\ error' = r.error
            /\ failed' = r.failed
            /\ lastcall' = r.lastcall
            /\ UNCHANGED <<az, azcall, fc, fcop, treeop>>

\* n.parse_objpaths(paths) called on a bucket directly, filter_pattern left
\* at its default None
ParseObjpaths ==
    \E n \in Ids(nodes), paths \in ParseLists :
        /\ is_bucket(nodes, n)
        /\ nodes' = parse_objpaths(nodes, n, paths, <<>>)
        /\ Len(nodes') <= MaxNodes
        /\ UNCHANGED <<error, failed, lastcall, az, azcall, fc, fcop, treeop>>

\* the names of the objects handed to _add
AddNames == { <<"a">>, <<"B">> }

\* what the backend may answer while _add is called directly: the bucket
\* "a", and the keys "B" or "a/b"
AddOutcomes(n) ==
    IF fetch_call(nodes, n, TRUE) = "get_buckets" THEN SdkOutcomes({<< <<"a">> >>})
    ELSE IF fetch_call(nodes, n, TRUE) = "get_objects"
    THEN SdkOutcomes({<< <<"B">> >>, << <<"a", "/", "b">> >>})
    ELSE {NoSdk}

\* n.get_dir_list(cloud_handle) with those answers
ListDir ==
    \E n \in Ids(nodes) : \E sdk \in AddOutcomes(n) :
        \E f \in {get_dir_list(nodes, n, TRUE, <<>>, sdk, error)} :
            /\ Len(f.ns) <= MaxAddNodes
            /\ Done(n, <<>>, f)

\* a new object of the class: a leaf, as CloudObj(name) makes it, or a
\* directory, as _make_dir(name, None) makes it
NewKinds == {"elm", "dir"}

make_new(ns, kind, name) ==
    IF kind = "dir" THEN make_dir(ns, name, NoParent) ELSE make_elm(ns, name, NoParent)

\* n._add(cloud_obj) with a new object; the master root is given directories
\* only, its children being the buckets, which hold a list. A new object
\* that _add did not attach is referenced by nothing and leaves the heap.
Add ==
    /\ \E n \in Ids(nodes), kind \in NewKinds, name \in AddNames :
          /\ is_master_root(nodes, n) => kind = "dir"
          /\ Len(make_new(nodes, kind, name)) <= MaxAddNodes
          /\ \E r \in {add(make_new(nodes, kind, name), n, Len(nodes) + 1)} :
                /\ nodes' = IF r.ret = Len(nodes) + 1 THEN r.ns
                            ELSE SubSeq(r.ns, 1, Len(nodes))
                /\ treeop' = [NoTreeOp EXCEPT
                                 !.op = "_add", !.node = n, !.obj = Len(nodes) + 1,
                                 !.name = name, !.ret = r.ret,
                                 !.children = nodes[n].children,
                                 !.fetched = nodes[n].fetched,
                                 !.dir = is_dir(nodes, n)]
    /\ UNCHANGED <<error, failed, lastcall, az, azcall, fc, fcop>>

\* what the S3 backend holds: the bucket "a", and in it the keys "a/b", or
\* "B" and "a/b"
S3BucketLists == { << <<"a">> >> }
S3KeyLists == { << <<"a", "/", "b">> >>, << <<"B">>, <<"a", "/", "b">> >> }

S3Outcomes(n, s3_handle) ==
    IF s3_fetch_call(nodes, n, s3_handle) = "get_buckets" THEN SdkOutcomes(S3BucketLists)
    ELSE IF s3_fetch_call(nodes, n, s3_handle) = "get_objects"
    THEN SdkOutcomes(S3KeyLists)
    ELSE {NoSdk}

\* n.fetch_children(s3_handle) on a tree of S3Obj
S3FetchChildren ==
    \E n \in Ids(nodes), s3_handle \in BOOLEAN :
      \E sdk \in S3Outcomes(n, s3_handle) :
        \E f \in {s3_fetch_children(nodes, n, s3_handle, sdk, error)} :
            /\ Len(f.ns) <= MaxS3Nodes
            /\ nodes' = f.ns
            /\ error' = f.error
            /\ lastcall' = IF f.called = "none" THEN lastcall
                           ELSE [NoCall EXCEPT !.call = f.called, !.node = n,
                                               !.args = f.args, !.res = f.res,
                                               !.keys = f.keys]
            /\ treeop' = [NoTreeOp EXCEPT
                             !.op = "fetch_children", !.node = n,
                             !.children = nodes[n].children,
                             !.fetched = nodes[n].fetched,
                             !.dir = is_master_root(nodes, n) \/ is_dir(nodes, n),
                             !.handle = s3_handle,
                             !.called = f.called, !.raised = f.raised]
            /\ UNCHANGED <<failed, az, azcall, fc, fcop>>

\* the tree of S3Obj listed from the S3 adapter
NextS3 == S3FetchChildren

SpecS3 == Init /\ [][NextS3]_vars

Next == FetchChildren \/ GetDirList

Spec == Init /\ [][Next]_vars

\* the tree, read, listed and searched by path
NextFind == Next \/ FindPath

SpecFind == Init /\ [][NextFind]_vars

\* the credentials given to init_cred
Creds == { <<"acc1", "key1">>, <<"acc1", "key2">>, <<"acc2", "key1">> }

\* what an adapter operation returned
RetKind(ret) == IF ret = NoneList THEN "none" ELSE "result"

\* client.init_cred(params)
InitCred ==
    \E params \in Creds :
        /\ az' = init_cred(az, params)
        /\ azcall' = [op |-> "init_cred", ret |-> "True", raised |-> FALSE,
                      account |-> params, used |-> NoHandle, answer |-> "n/a"]
        /\ UNCHANGED <<nodes, error, failed, lastcall, fc, fcop, treeop>>

\* client.reload()
Reload ==
    /\ az' = reload(az)
    /\ azcall' = [op |-> "reload", ret |-> "n/a", raised |-> FALSE,
                  account |-> az.account, used |-> NoHandle,
                  answer |-> "n/a"]
    /\ UNCHANGED <<nodes, error, failed, lastcall, fc, fcop, treeop>>

\* client.reset()
Reset ==
    /\ az' = reset(az)
    /\ azcall' = [op |-> "reset", ret |-> "n/a", raised |-> FALSE,
                  account |-> NoCred, used |-> NoHandle, answer |-> "n/a"]
    /\ UNCHANGED <<nodes, error, failed, lastcall, fc, fcop, treeop>>

\* client.validate_cred(): the client property is read, and building the
\* client may raise after the connection string was made
ValidateCred ==
    \E kind \in {"ok", "AzureError", "HttpResponseError"} :
        /\ az' = IF kind = "ok" \/ az.client # NoHandle THEN client(az)
                 ELSE connection_str(az)
        /\ azcall' = [op |-> "validate_cred",
                      ret |-> IF az.client # NoHandle THEN "True"
                              ELSE validate_cred(kind),
                      raised |-> FALSE, account |-> az.account,
                      used |-> az'.connection_str, answer |-> kind]
        /\ UNCHANGED <<nodes, error, failed, lastcall, fc, fcop, treeop>>

\* S3.validate_cred(): a new sts client asks for the caller's identity;
\* nothing of the client is read but the credentials
S3ValidateCred ==
    \E kind \in {"ok", "EndpointConnectionError", "ClientError"} :
        /\ azcall' = [op |-> "s3_validate_cred", ret |-> s3_validate_cred(kind),
                      raised |-> FALSE, account |-> az.account,
                      used |-> NoHandle, answer |-> kind]
        /\ UNCHANGED <<nodes, error, failed, lastcall, az, fc, fcop, treeop>>

\* client.get_buckets(parent) as fetch_children calls it, with the master
\* root's name
GetBuckets ==
    \E sdk \in AdapterOutcomes(LookupBucketLists), parent \in {NoneName} :
        \E r \in {get_buckets(sdk, parent)} :
            /\ az' = client(az)
            /\ error' = r.error
            /\ azcall' = [op |-> "get_buckets", ret |-> RetKind(r.ret),
                          raised |-> r.raised, account |-> az.account,
                          used |-> az'.client, answer |-> sdk.kind]
            /\ UNCHANGED <<nodes, failed, lastcall, fc, fcop, treeop>>

\* client.get_objects(bucket, prefix): the container client is made from the
\* connection string
GetObjects ==
    \E sdk \in AdapterOutcomes(LookupKeyLists), bucket \in BucketNames :
        \E r \in {get_objects(sdk, bucket, <<>>)} :
            /\ az' = connection_str(az)
            /\ error' = r.error
            /\ azcall' = [op |-> "get_objects", ret |-> RetKind(r.ret),
                          raised |-> r.raised, account |-> az.account,
                          used |-> az'.connection_str, answer |-> sdk.kind]
            /\ UNCHANGED <<nodes, failed, lastcall, fc, fcop, treeop>>

\* client.get_object(bucket, obj_path): the blob client is made from the
\* connection string
GetObject ==
    \E sdk \in AdapterOutcomes({<< <<"d", "a", "t", "a">> >>}), bucket \in BucketNames :
        \E r \in {get_object(sdk, bucket, <<"B">>)} :
            /\ az' = connection_str(az)
            /\ error' = r.error
            /\ azcall' = [op |-> "get_object", ret |-> RetKind(r.ret),
                          raised |-> r.raised, account |-> az.account,
                          used |-> az'.connection_str, answer |-> sdk.kind]
            /\ UNCHANGED <<nodes, failed, lastcall, fc, fcop, treeop>>

\* the adapter on its own
NextAdapter ==
    \/ InitCred \/ Reload \/ Reset \/ ValidateCred \/ S3ValidateCred
    \/ GetBuckets \/ GetObjects \/ GetObject

SpecAdapter == Init /\ [][NextAdapter]_vars

\* the master roots of the heap
Roots(ns) == {n \in Ids(ns) : is_master_root(ns, n)}

\* what the backend may answer to the calls of one event
ChooserOutcomes ==
    {[b |-> x, o |-> y] : x \in SdkOutcomes({<< <<"a">> >>}),
                          y \in SdkOutcomes({<< <<"a", "/", "b">> >>})}

\* the state a handler starts from
Now ==
    [ns |-> nodes, error |-> error, failed |-> failed, lastcall |-> lastcall,
     made |-> <<>>, raised |-> FALSE, az |-> az,
     fc |-> [fc EXCEPT !.exposed = FALSE], invoked |-> 0, exc |-> "none",
     arg |-> [path |-> NoPath, filename |-> NoneName], wrote |-> NoPath]

\* the state a handler leaves, and the record of the event
Handled(r, op, validation, seen, picked) ==
    /\ Cardinality(Roots(r.ns)) <= MaxRoots
    /\ nodes' = r.ns
    /\ error' = r.error
    /\ failed' = r.failed
    /\ lastcall' = r.lastcall
    /\ az' = AzAfter(r.az, r.made)
    /\ fc' = r.fc
    /\ fcop' = [op |-> op, validation |-> validation, old |-> Ids(nodes),
                calls |-> Len(r.made), seen |-> seen, raised |-> r.raised,
                picked |-> picked,
                fetched |-> {n \in Ids(nodes) : nodes[n].fetched},
                prev |-> [pathlist |-> fc.pathlist, filename |-> fc.filename],
                shown |-> fc.shown, invoked |-> r.invoked, exc |-> r.exc,
                wrote |-> r.wrote, arg |-> r.arg]
    /\ UNCHANGED <<azcall, treeop>>

\* the user picks another storage source: _on_sourcelist_select
SourceSelectOn(Answers) ==
    \E new \in {"LOCAL", "AZURE"} \ {fc.source}, sdks \in Answers :
        \E r \in {process_source_change(Now, fc.source, new, sdks)} :
            Handled(r, "source", "n/a",
                    IF fc.source = "AZURE"
                    THEN IF fc.pathlist # 0 /\ nodes[fc.pathlist].fetched
                         THEN fc.pathlist ELSE 0
                    ELSE fcop.seen,
                    0)

\* the user fills in the credentials of a cloud source:
\* _on_access_cred_change; the change is processed when the values are set
\* and differ from the client's
AccessCredChangeOn(Values, Answers, Kinds) ==
    \E values \in Values, sdks \in Answers, kind \in Kinds :
        /\ fc.source = "AZURE"
        /\ IF is_set(values) /\ fc.cloud /\ values # az.account
           THEN \E v \in {validate(clear_form_values(
                                      [Now EXCEPT !.fc.cred = values], FALSE), kind)} :
                  \E r \in {process_access_cred_change(v.st, v.res, sdks)} :
                      Handled(r, "cred", v.res, fcop.seen, 0)
           ELSE Handled([Now EXCEPT !.fc.cred = values], "same_cred", "n/a",
                        fcop.seen, 0)

\* the user picks an entry of the directory listing:
\* _on_dircontent_select_cloud
DircontentSelectOn(Answers) ==
    \E i \in DOMAIN fc.dircontent, sdks \in Answers :
        /\ fc.source = "AZURE"
        /\ \E r \in {set_form_values(
                         Now,
                         [kind |-> "obj", str |-> NoPath,
                          obj |-> IF is_dir(nodes, fc.dircontent[i])
                                  THEN fc.dircontent[i] ELSE fc.pathlist,
                          filename |-> IF is_dir(nodes, fc.dircontent[i])
                                       THEN fc.filename
                                       ELSE filename(nodes, fc.dircontent[i])],
                         sdks)} :
              Handled(r, "select", "n/a", fcop.seen, fc.dircontent[i])

\* the user picks an entry of the path list: _on_pathlist_select_cloud
PathlistSelectOn(Answers) ==
    \E sdks \in Answers :
        /\ fc.source = "AZURE"
        /\ fc.pathlist # 0
        /\ \E k \in DOMAIN get_ancestry(nodes, fc.pathlist, <<>>) :
              \E r \in {set_form_values(
                             Now,
                             [kind |-> "obj", str |-> NoPath,
                              obj |-> get_ancestry(nodes, fc.pathlist, <<>>)[k],
                              filename |-> fc.filename],
                             sdks)} :
                  Handled(r, "path", "n/a", fcop.seen,
                          get_ancestry(nodes, fc.pathlist, <<>>)[k])

SourceSelect == SourceSelectOn(ChooserOutcomes)

AccessCredChange ==
    AccessCredChangeOn(Creds, ChooserOutcomes,
                       {"ok", "AzureError", "HttpResponseError", "ValueError"})

DircontentSelect == DircontentSelectOn(ChooserOutcomes)

PathlistSelect == PathlistSelectOn(ChooserOutcomes)

\* the chooser driven by its user
NextChooser == SourceSelect \/ AccessCredChange \/ DircontentSelect \/ PathlistSelect

\* FileChooser(): the local source, and no cloud node made yet
InitChooser ==
    /\ nodes = <<>>
    /\ error = NoneErr
    /\ failed = {}
    /\ lastcall = NoCall
    /\ az = NewClient
    /\ azcall = NoOp
    /\ fc = NewChooser
    /\ fcop = NoEvent
    /\ treeop = NoTreeOp

SpecChooser == InitChooser /\ [][NextChooser]_vars

\* the tree driven through fetch operations and direct calls of the builder

NextParse == Next \/ ParseObjpaths

\* the tree listed from the backend and extended by direct calls of _add
NextAdd == ListDir \/ Add

SpecAdd == Init /\ [][NextAdd]_vars

SpecParse == Init /\ [][NextParse]_vars

---------------------------------------------------------------------------
(* Vocabulary of the properties *)

Range(s) == {s[i] : i \in DOMAIN s}

\* the children of n other than its dirup marker
NamedKids(ns, n) == {k \in Range(Kids(ns, n)) : ~is_dirup(ns, k)}

\* a container: a bucket or a directory
is_container(ns, n) == ~is_root(ns, n) /\ (has_children(ns, n) \/ is_bucket(ns, n))

\* a directory: a container below a bucket
is_directory(ns, n) == is_container(ns, n) /\ ~is_bucket(ns, n)

\* a node that is neither the master root nor a dirup marker
is_named(ns, n) == ~is_root(ns, n)

\* the names [n1, ..., nk] on the way from the master root to n
NamesTo(ns, n) ==
    LET a == get_ancestry(ns, n, <<>>)
    IN  [i \in 1..(Len(a) - 1) |-> ns[a[i + 1]].name]

\* the strings of a sequence joined with the separator
RECURSIVE JoinSep(_)
JoinSep(names) ==
    IF names = <<>> THEN <<>>
    ELSE IF Len(names) = 1 THEN names[1]
    ELSE names[1] \o <<SEP>> \o JoinSep(Tail(names))

\* a key whose segments are all non-empty
WellFormed(k) == \A i \in DOMAIN SplitAll(k) : SplitAll(k)[i] # <<>>

FirstSeg(k) == IF FindSep(k) = 0 THEN k ELSE Split1(k)[1]

\* the answers of a backend that the properties offer to an operation
Probe == SdkOutcomes(ListsOf(Keys, 1) \cup ListsOf(BucketNames, 1))

\* the tree below n is the parse of the set of keys S: one leaf per key
\* without a separator, one container per first segment, holding the parse of
\* the tails
RECURSIVE Shape(_, _, _)
Shape(ns, n, S) ==
    LET flat == {k \in S : FindSep(k) = 0}
        heads == {Split1(k)[1] : k \in S \ flat}
        kids == NamedKids(ns, n)
    IN  /\ Cardinality(kids) = Cardinality(flat) + Cardinality(heads)
        /\ Len(Kids(ns, n)) = Cardinality(kids) + 1
        /\ \A k \in flat : \E c \in kids : is_leaf(ns, c) /\ ns[c].name = k
        /\ \A h \in heads :
              \E c \in kids :
                  /\ has_children(ns, c) /\ ns[c].name = h
                  /\ \A d \in kids : (has_children(ns, d) /\ ns[d].name = h) => d = c
                  /\ Shape(ns, c, {Split1(k)[2] : k \in {x \in S \ flat : Split1(x)[1] = h}})

\* the name paths from n down to the leaves below it, as keys
RECURSIVE LeafPaths(_, _)
LeafPaths(ns, n) ==
    UNION { IF is_leaf(ns, c) THEN {ns[c].name}
            ELSE {ns[c].name \o <<SEP>> \o q : q \in LeafPaths(ns, c)} :
            c \in NamedKids(ns, n) }

\* the place of a child in a listing: dirup, then containers, then leaves
rank(ns, o) == IF is_dirup(ns, o) THEN 0 ELSE IF is_container(ns, o) THEN 1 ELSE 2

\* a sequence of nodes in listing order
Ordered(ns, objs) ==
    \A i, j \in DOMAIN objs :
        i < j => \/ rank(ns, objs[i]) < rank(ns, objs[j])
                 \/ /\ rank(ns, objs[i]) = rank(ns, objs[j])
                    /\ (rank(ns, objs[i]) = 0
                        \/ ~StrLess(ns[objs[j]].name, ns[objs[i]].name))

\* what the ordering reads of a node
SortKey(ns, o) ==
    <<is_master_root(ns, o), is_dirup(ns, o), is_bucket(ns, o), has_children(ns, o),
      ns[o].name>>

---------------------------------------------------------------------------
(* C1 *)

\* C1: on a node whose fetched flag is true, fetch_children with any backend
\* handle and any filter makes no backend call, changes nothing, and returns
\* the same children list object with the same nodes in it; since nothing
\* changes, so does every repetition of the call
C1_IdempotentFetch ==
    \A n \in Ids(nodes) :
        nodes[n].fetched =>
            \A cloud_handle \in BOOLEAN, filter_pattern \in Filters, sdk \in Probe :
                LET f == fetch_children(nodes, n, cloud_handle, filter_pattern, sdk,
                                        error)
                IN  /\ f.called = "none"
                    /\ ~f.raised
                    /\ f.ns = nodes
                    /\ f.error = error
                    /\ f.ret = nodes[n].children
                    /\ f.retList = nodes[n].clist

\* a bucket that a backend call has filled with children
C1_Witness ==
    \E n \in Ids(nodes) :
        /\ nodes[n].fetched
        /\ lastcall.node = n
        /\ lastcall.call = "get_objects"
        /\ Cardinality(NamedKids(nodes, n)) >= 2

---------------------------------------------------------------------------
(* C2 *)

\* C2: after a backend call issued by fetch_children on a node, an empty list
\* leaves the node fetched with no child but the dirup marker, and none leaves
\* it not fetched with a non-empty error text
C2_EmptyVsError ==
    lastcall.call # "none" =>
        /\ (lastcall.res = "list" /\ lastcall.keys = <<>>) =>
              /\ nodes[lastcall.node].fetched
              /\ NamedKids(nodes, lastcall.node) = {}
        /\ lastcall.res = "none" =>
              /\ ~nodes[lastcall.node].fetched
              /\ error # NoneErr

---------------------------------------------------------------------------
(* C3 *)

\* the children of n are those parsed from the listing
ParsedFrom(ns, n, call, keys, filter_pattern) ==
    {ns[c].name : c \in NamedKids(ns, n)} =
        IF call = "get_buckets" THEN Range(keys)
        ELSE {FirstSeg(k) : k \in {x \in Range(keys) :
                                    FindSep(x) # 0 \/ match_item(x, filter_pattern)}}

\* C3: a node whose latest backend call returned none is not fetched and the
\* next fetch_children or get_dir_list on it calls the backend again; when
\* that call returns a list, the node is fetched and holds the children
\* parsed from the list
C3_RetryAfterFailure ==
    /\ \A n \in failed :
          /\ ~nodes[n].fetched
          /\ \A filter_pattern \in Filters, sdk \in Probe :
                /\ fetch_children(nodes, n, TRUE, filter_pattern, sdk, error).called
                      # "none"
                /\ get_dir_list(nodes, n, TRUE, filter_pattern, sdk, error).called
                      # "none"
    /\ (lastcall.failedBefore /\ lastcall.res = "list") =>
          /\ nodes[lastcall.node].fetched
          /\ ParsedFrom(nodes, lastcall.node, lastcall.call, lastcall.keys,
                        lastcall.filter)

---------------------------------------------------------------------------
(* C4 *)

\* C4: when a listing of keys with non-empty segments is parsed into a
\* container without a filter, each key without a separator is a leaf child,
\* each distinct first segment is exactly one container child holding the
\* parse of the tails, and the leaf paths below the container are the keys
C4_ParseShape ==
    ( /\ lastcall.call = "get_objects"
      /\ lastcall.res = "list"
      /\ lastcall.keys # <<>>
      /\ lastcall.filter = <<>>
      /\ \A k \in Range(lastcall.keys) : WellFormed(k) ) =>
        /\ Shape(nodes, lastcall.node, Range(lastcall.keys))
        /\ LeafPaths(nodes, lastcall.node) = Range(lastcall.keys)

\* two keys under one first segment have been parsed into a bucket
C4_Witness ==
    /\ lastcall.call = "get_objects"
    /\ lastcall.res = "list"
    /\ lastcall.filter = <<>>
    /\ Len(lastcall.keys) = 2
    /\ \A k \in Range(lastcall.keys) : WellFormed(k) /\ FindSep(k) # 0
    /\ FirstSeg(lastcall.keys[1]) = FirstSeg(lastcall.keys[2])
    /\ nodes[lastcall.node].fetched
    /\ Cardinality(LeafPaths(nodes, lastcall.node)) = 2

---------------------------------------------------------------------------
(* C5 *)

\* C5: every directory that a listing has created, at any depth, is fetched,
\* and fetch_children and get_dir_list on it make no backend call
C5_SubtreeFetched ==
    \A d \in Ids(nodes) :
        is_directory(nodes, d) =>
            /\ nodes[d].fetched
            /\ \A cloud_handle \in BOOLEAN, filter_pattern \in Filters, sdk \in Probe :
                  /\ fetch_children(nodes, d, cloud_handle, filter_pattern, sdk,
                                    error).called = "none"
                  /\ get_dir_list(nodes, d, cloud_handle, filter_pattern, sdk,
                                  error).called = "none"

\* one listing of a bucket has created a directory inside a directory
C5_Witness ==
    /\ lastcall.call = "get_objects"
    /\ lastcall.res = "list"
    /\ nodes[lastcall.node].fetched
    /\ \E d \in Ids(nodes) :
          /\ is_directory(nodes, d)
          /\ is_directory(nodes, nodes[d].parent)
          /\ nodes[d].fetched

---------------------------------------------------------------------------
(* C6 *)

\* C6: after any sequence of parse and fetch operations no node has two
\* children of the same name; in particular the lists ["a/b"] and ["a/c"]
\* parsed one after the other under a node leave it one container "a"
C6_NoDuplicateContainers ==
    \A n \in Ids(nodes) :
        \A c, d \in NamedKids(nodes, n) :
            (has_children(nodes, c) /\ has_children(nodes, d)
                /\ nodes[c].name = nodes[d].name) => c = d

---------------------------------------------------------------------------
(* C7 *)

\* the segments of a path after its root string and its bucket
AfterBucket(path, c) ==
    Tail(SplitAll(SubSeq(path, Len(MASTER_ROOT_STR(c)) + 1, Len(path))))

\* C7: for a node reached from the master root through the names
\* [n1, ..., nk], the path with the bucket splits, after the bucket, into
\* [n2, ..., nk]; the call data are (n1, n2/.../nk); and the ancestry is the
\* master root followed by the nodes of the names, in that order
C7_RoundTripPath ==
    \A n \in Ids(nodes) :
        is_named(nodes, n) =>
            LET names == NamesTo(nodes, n)
                a == get_ancestry(nodes, n, <<>>)
            IN  /\ \A c \in Classes :
                      /\ get_cloud_path_with_bucket(nodes, c, n) # Raised
                      /\ AfterBucket(get_cloud_path_with_bucket(nodes, c, n), c)
                            = Tail(names)
                /\ get_cloud_call_data(nodes, n) = <<names[1], JoinSep(Tail(names))>>
                /\ Len(a) = Len(names) + 1
                /\ is_master_root(nodes, a[1])
                /\ a[Len(a)] = n
                /\ \A i \in 2..Len(a) : nodes[a[i]].parent = a[i - 1]

---------------------------------------------------------------------------
(* C8 *)

\* C8: for a node of either class other than the master root, the path with
\* the bucket begins with the separator and is, after its leading separators,
\* the names from the bucket down to the node joined with the separator
C8_AbsolutePath ==
    \A n \in Ids(nodes) :
        is_named(nodes, n) =>
            \A c \in Classes :
                LET p == get_cloud_path_with_bucket(nodes, c, n)
                    j == JoinSep(NamesTo(nodes, n))
                    k == Len(p) - Len(j)
                IN  /\ p # Raised
                    /\ p[1] = SEP
                    /\ k >= 1
                    /\ SubSeq(p, k + 1, Len(p)) = j
                    /\ \A i \in 1..k : p[i] = SEP

---------------------------------------------------------------------------
(* C9 *)

\* C9: get_dir_list on a fetched node returns the node's children, each with
\* its display name, the dirup marker first, then the containers in
\* ascending name order, then the leaves in ascending name order
C9_ListingOrder ==
    \A n \in Ids(nodes) :
        nodes[n].fetched =>
            \A cloud_handle \in BOOLEAN, filter_pattern \in Filters :
                LET r == get_dir_list(nodes, n, cloud_handle, filter_pattern, NoSdk,
                                      error)
                    objs == [i \in DOMAIN r.ret |-> r.ret[i][2]]
                IN  /\ ~r.raised
                    /\ Len(objs) = Len(Kids(nodes, n))
                    /\ Range(objs) = Range(Kids(nodes, n))
                    /\ Ordered(r.ns, objs)
                    /\ \A i \in DOMAIN objs :
                          r.ret[i][1] = ui_name_1(r.ns, ANY_CLASS, objs[i])

\* get_dir_list has put a directory before a leaf that was created first
C9_Witness ==
    \E n \in Ids(nodes) :
        /\ nodes[n].fetched
        /\ nodes[n].sorted
        /\ \E i, j, k \in DOMAIN Kids(nodes, n) :
              /\ i < j /\ j < k
              /\ is_dirup(nodes, nodes[n].children[i])
              /\ is_directory(nodes, nodes[n].children[j])
              /\ is_leaf(nodes, nodes[n].children[k])
              /\ nodes[n].children[k] < nodes[n].children[j]

---------------------------------------------------------------------------
(* C10 *)

\* the sequences that arrange the elements of s in another order
Orders(s) ==
    {[i \in DOMAIN s |-> s[p[i]]] : p \in Permutations(DOMAIN s)}

\* C10: over the nodes of a tree, of all kinds, the ordering is irreflexive,
\* asymmetric and transitive, and so is being incomparable; the sort of a
\* children list gives the same kinds and names in the same places whatever
\* order the list is given in
C10_StrictWeakOrder ==
    /\ \A a \in Ids(nodes) : ~lt(nodes, a, a)
    /\ \A a, b \in Ids(nodes) : lt(nodes, a, b) => ~lt(nodes, b, a)
    /\ \A a, b \in Ids(nodes) :
          lt(nodes, a, b) =>
              \A c \in Ids(nodes) : lt(nodes, b, c) => lt(nodes, a, c)
    /\ \A a, b \in Ids(nodes) :
          (~lt(nodes, a, b) /\ ~lt(nodes, b, a)) =>
              \A c \in Ids(nodes) :
                  (~lt(nodes, b, c) /\ ~lt(nodes, c, b)) =>
                      (~lt(nodes, a, c) /\ ~lt(nodes, c, a))
    /\ \A n \in Ids(nodes) :
          \A s \in Orders(Kids(nodes, n)) :
              [i \in DOMAIN s |-> SortKey(nodes, list_sort(nodes, s)[i])]
                = [i \in DOMAIN s |->
                      SortKey(nodes, list_sort(nodes, Kids(nodes, n))[i])]

\* a tree with a node of every kind, and leaves and directories to compare
C10_Witness ==
    /\ \E a, b \in Ids(nodes) :
          /\ is_directory(nodes, a) /\ is_leaf(nodes, b) /\ is_named(nodes, b)
          /\ nodes[a].parent = nodes[b].parent
          /\ StrLess(nodes[b].name, nodes[a].name)
          /\ lt(nodes, a, b)
    /\ \E a, b \in Ids(nodes) :
          is_bucket(nodes, a) /\ is_bucket(nodes, b) /\ lt(nodes, a, b)
    /\ \E a \in Ids(nodes) : is_dirup(nodes, a)

---------------------------------------------------------------------------
(* C11 *)

\* the state as find_path receives it
Here == [ns |-> nodes, error |-> error, failed |-> failed, lastcall |-> lastcall,
         made |-> <<>>, ret |-> 0, raised |-> FALSE]

\* a lookup that is given no backend
NoSdks == [b |-> NoSdk, o |-> NoSdk]

\* the segments of a path after the root marker of class c
SegmentsOf(c, obj_path) ==
    SplitAll(SubSeq(obj_path, Len(MASTER_ROOT_STR(c)) + 1, Len(obj_path)))

\* C11: find_path started on the master root returns a node only when the
\* segments of the path after the root marker are, in order, the names of the
\* nodes on the chain from a bucket down to the node returned; a child whose
\* name is only a prefix of a segment, or a leaf met before the path is
\* exhausted, is not a match
C11_ExactMatch ==
    \A obj_path \in FindPaths(AZURE_CLASS), cloud_handle \in BOOLEAN :
        \A sdks \in (IF cloud_handle THEN LookupOutcomes ELSE {NoSdks}) :
            LET r == find_path(Here, AZURE_CLASS, ROOT, obj_path, cloud_handle,
                               <<>>, <<>>, sdks)
            IN  (~r.raised /\ r.ret # 0) =>
                    NamesTo(r.ns, r.ret) = SegmentsOf(AZURE_CLASS, obj_path)

---------------------------------------------------------------------------
(* C12 *)

\* C12: across fetch_children, get_dir_list and find_path calls, whatever the
\* backend answers, a node whose fetched flag is true keeps it true
C12_FetchedMonotone ==
    [][\A n \in Ids(nodes) :
          nodes[n].fetched => (n \in Ids(nodes') /\ nodes'[n].fetched)]_vars

\* a bucket is fetched and the latest backend call, made for another node,
\* failed
C12_Witness ==
    \E n \in Ids(nodes) :
        /\ is_bucket(nodes, n) /\ nodes[n].fetched
        /\ lastcall.res = "none" /\ lastcall.node # n /\ lastcall.node # ROOT

---------------------------------------------------------------------------
(* C13 *)

\* the dirup markers among the children of n, by position
DirupAt(ns, n) == {i \in DOMAIN Kids(ns, n) : is_dirup(ns, Kids(ns, n)[i])}

\* C13: each container other than the master root has exactly one dirup
\* marker among its children; the marker's parent is the container, it was
\* created before every other child of the container, and it is the first
\* entry of get_dir_list; the master root has no dirup child
C13_DirupInvariant ==
    \A n \in Ids(nodes) :
        /\ is_master_root(nodes, n) => DirupAt(nodes, n) = {}
        /\ is_container(nodes, n) =>
              /\ Cardinality(DirupAt(nodes, n)) = 1
              /\ \A i \in DirupAt(nodes, n) :
                    LET up == Kids(nodes, n)[i]
                    IN  /\ nodes[up].parent = n
                        /\ up = n + 1
                        /\ \A k \in Range(Kids(nodes, n)) : k # up => up < k
                        /\ \A cloud_handle \in BOOLEAN, filter_pattern \in Filters :
                              \A sdk \in (IF cloud_handle THEN Probe ELSE {NoSdk}) :
                                LET r == get_dir_list(nodes, n, cloud_handle,
                                                      filter_pattern, sdk, error)
                                IN  ~r.raised =>
                                        /\ r.ret # <<>>
                                        /\ r.ret[1][2] = up
                                        /\ \A j \in DOMAIN r.ret :
                                              is_dirup(r.ns, r.ret[j][2]) => j = 1

\* a fetched directory below a bucket lists its dirup marker, then a directory
\* and a leaf that were created in the other order
C13_Witness ==
    \E n \in Ids(nodes) :
        /\ is_directory(nodes, n) /\ nodes[n].fetched /\ nodes[n].sorted
        /\ Len(Kids(nodes, n)) >= 3
        /\ is_dirup(nodes, Kids(nodes, n)[1])
        /\ \E j, k \in DOMAIN Kids(nodes, n) :
              /\ j < k
              /\ is_directory(nodes, Kids(nodes, n)[j])
              /\ is_leaf(nodes, Kids(nodes, n)[k])
              /\ Kids(nodes, n)[k] < Kids(nodes, n)[j]

---------------------------------------------------------------------------
(* C18 *)

\* C18: on every node of a tree built by fetch operations, with no backend,
\* filename, short_name, get_ancestry, get_path_list, get_cloud_path,
\* get_cloud_path_with_bucket, find and get_dir_list return a value and do
\* not raise
C18_NavigationNeverFails ==
    \A n \in Ids(nodes), c \in Classes :
        /\ filename(nodes, n) # Raised
        /\ short_name(nodes, c, n) # Raised
        /\ get_ancestry(nodes, n, <<>>) \in Seq(Ids(nodes))
        /\ Len(get_path_list(nodes, c, n)) = Len(get_ancestry(nodes, n, <<>>))
        /\ get_cloud_path(nodes, n) # Raised
        /\ get_cloud_path_with_bucket(nodes, c, n) # Raised
        /\ \A o \in Ids(nodes) : find(nodes, n, o) \in {0} \cup Ids(nodes)
        /\ \A filter_pattern \in Filters :
              ~get_dir_list(nodes, n, FALSE, filter_pattern, NoSdk, error).raised

---------------------------------------------------------------------------
(* C19 *)

\* the nodes from n down
RECURSIVE Below(_, _)
Below(ns, n) == {n} \cup UNION {Below(ns, k) : k \in NamedKids(ns, n)}

\* C19: when the operation that made the latest listing call was given the
\* non-empty filter F, no node that the call filled has a leaf child whose
\* name does not match F, and every container the listing names is there
\* whether or not its name matches F
C19_FilterAtParse ==
    (lastcall.call = "get_objects" /\ lastcall.res = "list" /\ lastcall.asked # <<>>) =>
        /\ \A n \in Below(nodes, lastcall.node) :
              \A k \in NamedKids(nodes, n) :
                  is_leaf(nodes, k) => match_item(nodes[k].name, lastcall.asked)
        /\ \A key \in Range(lastcall.keys) :
              (FindSep(key) # 0 /\ FirstSeg(key) # <<>>) =>
                  \E k \in NamedKids(nodes, lastcall.node) :
                      has_children(nodes, k) /\ nodes[k].name = FirstSeg(key)

---------------------------------------------------------------------------
(* C14 *)

BackendCalls == {"get_buckets", "get_objects", "get_object"}

\* C14: once init_cred has stored other credentials, no backend call runs
\* against a client or connection string made from the earlier ones: every
\* get_buckets, get_objects and get_object call uses a client and connection
\* string built from the credentials stored when it is made
C14_CredChangeInvalidates ==
    azcall.op \in BackendCalls => azcall.used = ConnStr(azcall.account)

---------------------------------------------------------------------------
(* C17 *)

\* C17: get_buckets, get_objects and get_object return a result or none and
\* never raise, whatever the SDK call or the reading of its response does;
\* when none is returned the error text is set, and when a result is
\* returned the error text is none
C17_FailuresStopAtAdapter ==
    azcall.op \in BackendCalls =>
        /\ ~azcall.raised
        /\ azcall.ret = "none" => error # NoneErr
        /\ azcall.ret = "result" => error = NoneErr

---------------------------------------------------------------------------
(* C15 *)

\* C15: when the validation of changed credentials is undetermined
\* (validate_cred returns none), the chooser does not show the error it shows
\* for invalid credentials, and it does not list the master root
C15_UndeterminedNotInvalid ==
    (fcop.op = "cred" /\ fcop.validation = "None") =>
        /\ fc.label # "invalid_cred"
        /\ fcop.calls = 0
        /\ fc.pathlist = 0

---------------------------------------------------------------------------
(* C16 *)

\* C16: when the user comes back to a source whose tree was shown, fetched,
\* with the same credentials, the chooser shows nodes of that tree again and
\* makes no backend listing call
C16_TreeReusedOnReturn ==
    (fcop.op = "source" /\ fc.source = "AZURE" /\ fcop.seen # 0 /\ ~fcop.raised) =>
        /\ fcop.calls = 0
        /\ fc.pathlist \in fcop.old
        /\ nodes[fc.pathlist].fetched

---------------------------------------------------------------------------
(* C20 *)

\* C20: after the user has switched the storage source or changed the
\* credentials, neither the node of the form's path list nor any entry of
\* its directory listing is a node that existed before the change
C20_TreeDroppedOnChange ==
    fcop.op \in {"source", "cred"} =>
        /\ fc.pathlist \notin fcop.old
        /\ \A i \in DOMAIN fc.dircontent : fc.dircontent[i] \notin fcop.old

\* the credentials were changed while a tree with a bucket was there, and
\* the form lists the bucket of another tree
C20_Witness ==
    /\ fcop.op = "cred"
    /\ \E n \in fcop.old : is_bucket(nodes, n)
    /\ fc.pathlist # 0
    /\ \E i \in DOMAIN fc.dircontent : is_bucket(nodes, fc.dircontent[i])

---------------------------------------------------------------------------
(* C21 *)

\* what the backend answered, as the claim names it
Answered(kind) ==
    IF kind = "ok" THEN "True"
    ELSE IF kind \in {"HttpResponseError", "ClientError"} THEN "False"
    ELSE "None"

\* C21: validate_cred of the S3 and of the Azure client returns true when
\* the identity check succeeds, false when the backend answers with an
\* authentication or HTTP error response, and none when the backend cannot
\* be reached
C21_ThreeOutcomes ==
    azcall.op \in {"validate_cred", "s3_validate_cred"} =>
        azcall.ret = Answered(azcall.answer)

---------------------------------------------------------------------------
(* C22 *)

\* the children of the node of the latest _add before the call
KidsBefore == IF treeop.children = NoneCh THEN <<>> ELSE treeop.children

\* the positions of KidsBefore whose child has the name of the object added
EqualBefore == {i \in DOMAIN KidsBefore :
                  nodes[KidsBefore[i]].name = treeop.name}

\* C22: _add(c) on a node that has a child with c's name returns the first
\* such child, which is what find(c) returns, and leaves the children as they
\* were; on a node without such a child, where find(c) is none, it appends c,
\* makes the node c's parent and clears the sorted flag; so no _add gives a
\* node a second child of a name it has
C22_AddDeduplicates ==
    treeop.op = "_add" =>
        IF EqualBefore # {}
        THEN /\ treeop.ret = KidsBefore[CHOOSE i \in EqualBefore :
                                            \A j \in EqualBefore : i <= j]
             /\ nodes[treeop.node].children = treeop.children
             /\ treeop.obj \notin Ids(nodes)
        ELSE /\ treeop.ret = treeop.obj
             /\ nodes[treeop.node].children = Append(KidsBefore, treeop.obj)
             /\ nodes[treeop.obj].parent = treeop.node
             /\ ~nodes[treeop.node].sorted
             /\ find(nodes, treeop.node, treeop.obj) = treeop.obj

\* an object is handed to _add whose name a child added earlier has: the
\* earlier child is returned and the object is not among the children
C22_Witness ==
    /\ treeop.op = "_add"
    /\ treeop.ret # treeop.obj
    /\ treeop.children # NoneCh
    /\ nodes[treeop.ret].parent = treeop.node
    /\ ~is_root(nodes, treeop.ret)
    /\ nodes[treeop.ret].name = treeop.name
    /\ ~nodes[treeop.ret].fetched

---------------------------------------------------------------------------
(* C23 *)

\* the step ends with n as the node of a backend call that returned None
FailedOn(n) == lastcall'.call # "none" /\ lastcall'.node = n /\ lastcall'.res = "none"

\* the step leaves children, fetched flag and kind of n as they were
SameNode(n) ==
    /\ nodes'[n].children = nodes[n].children
    /\ nodes'[n].fetched = nodes[n].fetched
    /\ is_dir(nodes', n) = is_dir(nodes, n)
    /\ is_leaf(nodes', n) = is_leaf(nodes, n)
    /\ has_children(nodes', n) = has_children(nodes, n)

\* C23: a fetch_children whose backend call returns none leaves the node's
\* children, fetched flag and kind as they were, on the master root as on
\* buckets and directories
C23_FailedFetchNoChange ==
    [][\A n \in Ids(nodes) : FailedOn(n) => SameNode(n)]_vars

\* C23 as the code has it: that holds for buckets and directories; on the
\* master root the fetched flag stays false and the children are an empty
\* list afterwards, so a master root that was a leaf is none any more
C23_FailedFetchNoChangeBelowRoot ==
    [][\A n \in Ids(nodes) :
          FailedOn(n) =>
              IF is_master_root(nodes, n)
              THEN /\ nodes'[n].fetched = nodes[n].fetched
                   /\ ~nodes'[n].fetched
                   /\ nodes'[n].children = <<>>
                   /\ ~is_leaf(nodes', n)
              ELSE SameNode(n)]_vars

\* the listing of a bucket of a fetched master root has failed: the bucket
\* still holds its dirup marker alone and is not fetched
C23_Witness ==
    /\ lastcall.call = "get_objects"
    /\ lastcall.res = "none"
    /\ is_bucket(nodes, lastcall.node)
    /\ ~nodes[lastcall.node].fetched
    /\ Len(nodes[lastcall.node].children) = 1
    /\ nodes[ROOT].fetched

---------------------------------------------------------------------------
(* C24 *)

\* C24: on a fetched node, fetch_children and get_dir_list with any filter,
\* the one of the first fetch or another, call no backend, make no node and
\* return the children the node has: no leaf comes back that the filter of
\* the fetch dropped, and none goes that the new filter rejects
C24_FilterFixedByFetch ==
    \A n \in Ids(nodes) :
        nodes[n].fetched =>
            \A cloud_handle \in BOOLEAN, filter_pattern \in Filters, sdk \in Probe :
                LET f == fetch_children(nodes, n, cloud_handle, filter_pattern, sdk,
                                        error)
                    g == get_dir_list(nodes, n, cloud_handle, filter_pattern, sdk,
                                      error)
                IN  /\ f.ret = nodes[n].children
                    /\ g.called = "none"
                    /\ ~g.raised
                    /\ Len(g.ns) = Len(nodes)
                    /\ Len(g.ret) = Len(Kids(nodes, n))
                    /\ {g.ret[i][2] : i \in DOMAIN g.ret} = Range(Kids(nodes, n))
                    /\ Range(Kids(g.ns, n)) = Range(Kids(nodes, n))
                    /\ \A k \in Range(Kids(nodes, n)) :
                          /\ g.ns[k].name = nodes[k].name
                          /\ Range(Kids(g.ns, k)) = Range(Kids(nodes, k))

\* a bucket was listed with the filter "b*" and the key a/c among the
\* answers: the bucket and its directory a are fetched, and a has the leaf b
\* but no leaf c, which the filter has dropped
C24_Witness ==
    /\ lastcall.call = "get_objects"
    /\ lastcall.res = "list"
    /\ lastcall.filter # <<>>
    /\ <<"a", "/", "c">> \in Range(lastcall.keys)
    /\ nodes[lastcall.node].fetched
    /\ \E d \in NamedKids(nodes, lastcall.node) :
          /\ nodes[d].name = <<"a">>
          /\ nodes[d].fetched
          /\ \E k \in NamedKids(nodes, d) : nodes[k].name = <<"b">>
          /\ \A k \in NamedKids(nodes, d) : nodes[k].name # <<"c">>

---------------------------------------------------------------------------
(* C25 *)

\* C25: S3Obj.fetch_children called on a fetched node, on a leaf, or without
\* an S3 handle calls no backend, raises nothing and leaves the children and
\* the fetched flag as they were
C25_S3FetchOnlyIfNotLoaded ==
    (/\ treeop.op = "fetch_children"
     /\ treeop.fetched \/ ~treeop.dir \/ ~treeop.handle) =>
        /\ treeop.called = "none"
        /\ ~treeop.raised
        /\ nodes[treeop.node].children = treeop.children
        /\ nodes[treeop.node].fetched = treeop.fetched

---------------------------------------------------------------------------
(* C26 *)

\* the key prefix of the directory n: its S3 path and a separator
PrefixOf(n) == get_s3_path(nodes, n) \o <<SEP>>

\* the names one level below the directory n among the keys answered
OneBelow(n, keys) ==
    {SplitAll(SubSeq(k, Len(PrefixOf(n)) + 1, Len(k)))[1] :
        k \in {x \in Range(keys) : StartsWith(x, PrefixOf(n))}}

\* C26: after a directory found by the listing of its bucket has been listed
\* itself, with the backend answering the full keys below its prefix, the
\* names of its children are the entries one level below that prefix, each
\* once
C26_S3ListingOneLevelBelow ==
    (/\ treeop.op = "fetch_children"
     /\ treeop.called = "get_objects"
     /\ lastcall.res = "list"
     /\ ~is_bucket(nodes, treeop.node)) =>
        /\ {nodes[k].name : k \in NamedKids(nodes, treeop.node)}
              = OneBelow(treeop.node, lastcall.keys)
        /\ \A j, k \in NamedKids(nodes, treeop.node) :
              nodes[j].name = nodes[k].name => j = k

---------------------------------------------------------------------------
(* The dialog: the buttons and the callback, with the cloud form *)

\* callbacks a caller may register: one taking the chooser, one taking
\* nothing, one with an optional parameter that raises TypeError, and one
\* that raises another exception
Callbacks ==
    { [params |-> "self", does |-> "returns"],
      [params |-> "none", does |-> "returns"],
      [params |-> "optional", does |-> "TypeError"],
      [params |-> "self", does |-> "raises"] }

\* what the backend may answer while the dialog is used
DialogOutcomes ==
    {[b |-> x, o |-> y] : x \in {[kind |-> "ok", names |-> << <<"a">> >>]},
                          y \in {[kind |-> "ok", names |-> << <<"a", "/", "b">> >>],
                                 [kind |-> "error", names |-> <<>>]}}

\* register_callback(callback)
RegisterCallback ==
    \E cb \in Callbacks :
        \E r \in {[Now EXCEPT !.fc.callback = cb]} :
            Handled(r, "register", "n/a", fcop.seen, 0)

\* a click on Select, which a disabled button does not take
SelectClick ==
    \E sdks \in DialogOutcomes :
        /\ fc.source = "AZURE"
        /\ ~fc.select_disabled
        /\ \E r \in {on_select_click(Now, sdks)} :
              Handled(r, "select_click", "n/a", fcop.seen, 0)

\* a click on Read
ReadClick ==
    \E got \in {"None", "data"} :
        /\ fc.source = "AZURE"
        /\ ~fc.read_disabled
        /\ \E r \in {on_read_click(Now, got)} :
              Handled(r, "read_click", "n/a", fcop.seen, 0)

\* a click on Save
SaveClick ==
    /\ fc.source = "AZURE"
    /\ ~fc.save_disabled
    /\ \E r \in {on_save_click(Now)} :
          Handled(r, "save_click", "n/a", fcop.seen, 0)

\* a click on Cancel
CancelClick ==
    /\ fc.source = "AZURE"
    /\ ~fc.cancel_disabled
    /\ \E r \in {on_cancel_click(Now)} :
          Handled(r, "cancel_click", "n/a", fcop.seen, 0)

\* a call of reset(path, filename)
ResetCallOn(Paths, Names, Answers) ==
    \E path \in Paths, fname \in Names, sdks \in Answers :
        \E r \in {reset_chooser([Now EXCEPT !.arg = [path |-> path,
                                                     filename |-> fname]],
                                path, fname, sdks)} :
            Handled(r, "reset", "n/a", fcop.seen, 0)

\* a call of reset() while the dialog is used
DialogReset == ResetCallOn({NoPath}, {NoneName}, DialogOutcomes)

\* the widgets of the form take input only while the dialog is shown
DialogSourceSelect == fc.shown /\ SourceSelectOn(DialogOutcomes)

DialogAccessCredChange ==
    fc.shown /\ AccessCredChangeOn({<<"acc1", "key1">>}, DialogOutcomes,
                                   {"ok", "HttpResponseError"})

DialogDircontentSelect == fc.shown /\ DircontentSelectOn(DialogOutcomes)

\* the chooser and its buttons
NextDialog ==
    \/ DialogSourceSelect \/ DialogAccessCredChange \/ DialogDircontentSelect
    \/ RegisterCallback
    \/ SelectClick \/ ReadClick \/ SaveClick \/ CancelClick
    \/ DialogReset

SpecDialog == InitChooser /\ [][NextDialog]_vars

---------------------------------------------------------------------------
(* The local form driven by its user and by calls of reset *)

\* a directory that does not exist
MISSING_DIR == <<"/", "x">>

\* the names typed into the filename field: none, the file of the working
\* directory, and a name that leaves the directory
Filenames == {<<>>, <<"f">>, <<".", ".", "/", "n">>}

\* the paths and the filenames reset and default_path are called with
CallPaths == {NoPath, SUB_DIR, OUTSIDE, MISSING_DIR}

CallFilenames == {NoneName, <<"f">>, <<".", ".", "/", "n">>}

\* the backend is not reached from the local form
LocalOutcomes ==
    {[b |-> [kind |-> "error", names |-> <<>>],
      o |-> [kind |-> "error", names |-> <<>>]]}

\* the user picks an entry of the path dropdown, which then holds it:
\* _on_pathlist_select_local
LocalPathlistSelect ==
    /\ fc.source = "LOCAL"
    /\ fc.shown
    /\ fc.local_pathlist # NoPath
    /\ \E subpaths \in {get_subpaths(fc.local_pathlist)} :
        \E k \in DOMAIN subpaths, sdks \in LocalOutcomes :
            \E r \in {on_pathlist_select_local(
                          [Now EXCEPT !.fc.local_pathlist = subpaths[k]],
                          subpaths[k], sdks)} :
                Handled(r, "local_path", "n/a", fcop.seen, 0)

\* the user picks an entry of the directory listing:
\* _on_dircontent_select_local
LocalDircontentSelect ==
    /\ fc.source = "LOCAL"
    /\ fc.shown
    /\ \E names \in {LocalNames(fc)} :
        \E k \in DOMAIN names, sdks \in LocalOutcomes :
            \E r \in {on_dircontent_select_local(
                          [Now EXCEPT !.arg = [path |-> PathJoin(
                                                   expand_path(fc, fc.local_pathlist),
                                                   names[k]),
                                               filename |-> NoneName]],
                          names[k], sdks)} :
                Handled(r, "local_select", "n/a", fcop.seen, 0)

\* the user types a filename, which the field then holds:
\* _on_filename_change_local
LocalFilenameChange ==
    /\ fc.source = "LOCAL"
    /\ fc.shown
    /\ \E new \in Filenames \ {fc.filename}, sdks \in LocalOutcomes :
        \E r \in {on_filename_change_local([Now EXCEPT !.fc.filename = new],
                                           new, sdks)} :
            Handled(r, "local_filename", "n/a", fcop.seen, 0)

\* a call of reset(path, filename) on the local form
ResetCall == ResetCallOn(CallPaths, CallFilenames, LocalOutcomes)

\* a call of reset(path, filename) with a filename that is accepted
LocalResetCall == ResetCallOn(CallPaths, {NoneName, <<"f">>}, LocalOutcomes)

\* an assignment to default_path
DefaultPathSet ==
    /\ fc.source = "LOCAL"
    /\ \E path \in {SUB_DIR, OUTSIDE}, sdks \in LocalOutcomes :
        \E r \in {set_default_path([Now EXCEPT !.arg = [path |-> path,
                                                        filename |-> NoneName]],
                                   path, sdks)} :
            Handled(r, "default_path", "n/a", fcop.seen, 0)

\* the clicks on the buttons of the local form
LocalSelectClick ==
    /\ fc.source = "LOCAL"
    /\ ~fc.select_disabled
    /\ \E sdks \in LocalOutcomes :
        \E r \in {on_select_click(Now, sdks)} :
            Handled(r, "select_click", "n/a", fcop.seen, 0)

LocalReadClick ==
    /\ fc.source = "LOCAL"
    /\ ~fc.read_disabled
    /\ \E r \in {on_read_click(Now, "None")} :
          Handled(r, "read_click", "n/a", fcop.seen, 0)

LocalSaveClick ==
    /\ fc.source = "LOCAL"
    /\ ~fc.save_disabled
    /\ \E r \in {on_save_click(Now)} :
          Handled(r, "save_click", "n/a", fcop.seen, 0)

LocalCancelClick ==
    /\ fc.source = "LOCAL"
    /\ ~fc.cancel_disabled
    /\ \E r \in {on_cancel_click(Now)} :
          Handled(r, "cancel_click", "n/a", fcop.seen, 0)

\* the user picks another source while the form is shown
LocalSourceSelect == fc.shown /\ SourceSelectOn(LocalOutcomes)

NextLocal ==
    \/ LocalPathlistSelect \/ LocalDircontentSelect \/ LocalFilenameChange
    \/ LocalResetCall \/ DefaultPathSet
    \/ LocalSelectClick \/ LocalReadClick \/ LocalSaveClick \/ LocalCancelClick

\* FileChooser(sandbox_path=...): without a sandbox path, or with the
\* working directory as the sandbox path
InitLocal ==
    /\ nodes = <<>>
    /\ error = NoneErr
    /\ failed = {}
    /\ lastcall = NoCall
    /\ az = NewClient
    /\ azcall = NoOp
    /\ \E sandbox \in {NoPath, LOCAL_PATH} :
          fc = [NewChooser EXCEPT
                  !.sandbox_path = sandbox,
                  !.local_pathlist = restrict_path([NewChooser EXCEPT
                                                      !.sandbox_path = sandbox],
                                                   LOCAL_PATH)]
    /\ fcop = NoEvent
    /\ treeop = NoTreeOp

SpecLocal == InitLocal /\ [][NextLocal]_vars

\* reset called on either source: the user picks entries and files, applies
\* selections and changes the source in between
NextReset ==
    \/ ResetCall \/ LocalSourceSelect
    \/ LocalDircontentSelect \/ LocalSelectClick

SpecReset == InitLocal /\ [][NextReset]_vars

---------------------------------------------------------------------------
(* C27 *)

\* C27: an entry D picked from the listing, a bucket or a directory, becomes
\* the path shown, and D is a child of the node P shown before; and when the
\* ".." entry of the node D shown is picked, the parent P of D is the path
\* shown again, the filename is empty, and no backend call was made if P was
\* fetched
C27_DirupRoundTrip ==
    (fcop.op = "select" /\ ~fcop.raised) =>
        /\ (is_dir(nodes, fcop.picked) /\ ~is_dirup(nodes, fcop.picked)) =>
              /\ fc.pathlist = fcop.picked
              /\ nodes[fcop.picked].parent = fcop.prev.pathlist
        /\ is_dirup(nodes, fcop.picked) =>
              /\ nodes[fcop.picked].parent = fcop.prev.pathlist
              /\ fc.pathlist = nodes[fcop.prev.pathlist].parent
              /\ fc.filename = <<>>
              /\ fc.pathlist \in fcop.fetched => fcop.calls = 0

\* the ".." entry of a directory was picked while a filename was shown: the
\* bucket above it, which was fetched, is shown again
C27_Witness ==
    /\ fcop.op = "select"
    /\ ~fcop.raised
    /\ is_dirup(nodes, fcop.picked)
    /\ fcop.prev.filename # <<>>
    /\ is_bucket(nodes, fc.pathlist)
    /\ fc.pathlist \in fcop.fetched
    /\ fcop.prev.pathlist \in Range(fc.dircontent)

---------------------------------------------------------------------------
(* C28 *)

\* C28: in every handler of the coordinator, each assignment to the options
\* or the value of the path dropdown, the directory listing or the filename
\* field is made while the change handlers are detached, and the handlers
\* are attached when the handler ends, whether it raised or not
C28_NoReentrantUpdates ==
    fcop.op # "none" => (~fc.exposed /\ fc.observed)

---------------------------------------------------------------------------
(* C29 *)

\* C29: with a callback registered, a click on Select, Read or Save made
\* while the dialog is shown runs the callback exactly once, whatever the
\* callback does; a click on Select that opens the dialog and a click on
\* Cancel never run it
C29_CallbackOncePerClick ==
    /\ (/\ fcop.op \in {"select_click", "read_click", "save_click"}
        /\ fcop.shown
        /\ fc.callback # NoCallback) => fcop.invoked = 1
    /\ (fcop.op = "select_click" /\ ~fcop.shown) => fcop.invoked = 0
    /\ fcop.op = "cancel_click" => fcop.invoked = 0

---------------------------------------------------------------------------
(* C30 *)

\* C30: a click on Cancel hides the dialog and leaves the selected path and
\* filename, the default path and filename, the data read and the nodes of
\* the tree as they were
C30_CancelKeepsSelection ==
    [][fcop'.op = "cancel_click" =>
          /\ ~fc'.shown
          /\ fc'.selected_path = fc.selected_path
          /\ fc'.selected_filename = fc.selected_filename
          /\ fc'.default_path = fc.default_path
          /\ fc'.default_filename = fc.default_filename
          /\ fc'.data = fc.data
          /\ nodes' = nodes]_vars

\* Cancel was clicked in the dialog shown, with a file selected and read
\* before and a listing in the form
C30_Witness ==
    /\ fcop.op = "cancel_click"
    /\ fcop.shown
    /\ ~fc.shown
    /\ fc.selected_path # NoPath
    /\ fc.selected_filename # <<>>
    /\ fc.data = "data"
    /\ fc.pathlist # 0
    /\ fc.dircontent # <<>>

---------------------------------------------------------------------------
(* C31 *)

\* C31: when a call of reset has returned, whatever clicks and navigation
\* came before, nothing is selected (selected, selected_path and
\* selected_filename are None), the dialog is hidden, and the Select button
\* is enabled and has its first description.
C31_ResetClearsSelection ==
    fcop.op = "reset" /\ ~fcop.raised =>
        /\ fc.selected_path = NoPath
        /\ fc.selected_filename = NoneName
        /\ selected(fc) = NoPath
        /\ ~fc.shown
        /\ ~fc.select_disabled
        /\ fc.description = "Select"

\* reset(path) has returned on a chooser that holds data, which a click on
\* Read left after it applied a selection
C31_Witness ==
    /\ fcop.op = "reset"
    /\ ~fcop.raised
    /\ fcop.arg.path # NoPath
    /\ fc.data = "data"

---------------------------------------------------------------------------
(* C32 *)

\* the real path of p lies under the directory q
Under(p, q) ==
    LET a == Parts(realpath(p))
        b == Parts(q)
    IN  Len(b) <= Len(a) /\ SubSeq(a, 1, Len(b)) = b

\* a call of reset has left the chooser and the trees as they were
Untouched == fc' = [fc EXCEPT !.exposed = FALSE] /\ nodes' = nodes /\ az' = az

\* the filename holds a path separator or ".."
BadName(fname) ==
    fname # NoneName /\ (Contains(fname, <<SEP>>) \/ Contains(fname, PARDIR))

\* the path given lies outside the sandbox path set
Outside(path) ==
    path # NoPath /\ sandboxed(fc) /\ ~Under(path, fc.sandbox_path)

\* C32: reset(path, filename) rejects bad arguments before it touches any
\* state: a path outside the sandbox path raises ParentPathError, a filename
\* that holds a path separator or ".." raises InvalidFileNameError, and in
\* both cases the selection, the defaults, the visibility of the dialog and
\* the contents of the widgets are unchanged.
C32_ResetRejectsBadArguments ==
    [][fcop'.op = "reset" =>
          /\ Outside(fcop'.arg.path) =>
                fcop'.exc = "ParentPathError" /\ Untouched
          /\ ~Outside(fcop'.arg.path) /\ BadName(fcop'.arg.filename) =>
                fcop'.exc = "InvalidFileNameError" /\ Untouched]_vars

\* C32 as amended: the path is checked for the local source only, and
\* there a path that is no directory raises InvalidPathError while a
\* sandbox path is set; a directory outside the sandbox path raises
\* ParentPathError; otherwise a filename that holds a path separator or ".."
\* raises InvalidFileNameError; in each case nothing is changed. Without a
\* sandbox path, a local path that is no directory raises InvalidPathError
\* after the selection was removed and the dialog hidden.
C32_ResetRejectsBadArgumentsLocal ==
    [][fcop'.op = "reset" =>
          LET path == fcop'.arg.path
              checked == fc.source = "LOCAL" /\ path # NoPath /\ sandboxed(fc)
              nodir == checked /\ ~isdir(realpath(path))
              outside == checked /\ ~nodir /\ Outside(path)
          IN  /\ nodir => fcop'.exc = "InvalidPathError" /\ Untouched
              /\ outside => fcop'.exc = "ParentPathError" /\ Untouched
              /\ ~nodir /\ ~outside /\ BadName(fcop'.arg.filename) =>
                    fcop'.exc = "InvalidFileNameError" /\ Untouched
              /\ fcop'.exc \in {"ParentPathError", "InvalidFileNameError"} =>
                    Untouched
              /\ /\ fc.source = "LOCAL" /\ ~sandboxed(fc)
                 /\ path # NoPath /\ ~isdir(realpath(path))
                 /\ ~BadName(fcop'.arg.filename)
                 => /\ fcop'.exc = "InvalidPathError"
                    /\ ~fc'.shown /\ fc'.selected_path = NoPath]_vars

\* reset was called on the local form with a directory outside the sandbox
\* path, after a selection was applied, and raised ParentPathError
C32_Witness ==
    /\ fcop.op = "reset"
    /\ fcop.exc = "ParentPathError"
    /\ fc.source = "LOCAL"
    /\ fcop.arg.path = OUTSIDE
    /\ fc.selected_path # NoPath
    /\ fc.description = "Change"

---------------------------------------------------------------------------
(* C33 *)

\* the directory the local form shows: the value of the path dropdown,
\* expanded as the handlers expand it
ShownDir(c) == expand_path(c, c.local_pathlist)

\* the directory shown and the selected path lie under the sandbox path
InSandbox(c) ==
    /\ c.local_pathlist # NoPath => Under(ShownDir(c), c.sandbox_path)
    /\ c.selected_path # NoPath => Under(c.selected_path, c.sandbox_path)

\* C33: with a sandbox path set and the local source, after every path
\* pick, directory pick, filename change, click, reset and default_path
\* assignment the directory shown and the selected path lie under the
\* sandbox path; picking a directory outside it, and reset or default_path
\* with a directory outside it, raise ParentPathError and leave the
\* directory shown as it was.
C33_SandboxInvariant ==
    [][fc.source = "LOCAL" /\ sandboxed(fc) =>
          /\ InSandbox(fc')
          /\ /\ fcop'.op \in {"local_select", "reset", "default_path"}
             /\ fcop'.arg.path # NoPath
             /\ isdir(fcop'.arg.path)
             /\ ~Under(fcop'.arg.path, fc.sandbox_path)
             => /\ fcop'.exc = "ParentPathError"
                /\ fc'.local_pathlist = fc.local_pathlist
          /\ fcop'.exc = "ParentPathError" =>
                fc'.local_pathlist = fc.local_pathlist]_vars

\* in the subdirectory of the sandbox path, with a selection applied there
\* before, the user picked the link that leads out of the sandbox path
C33_Witness ==
    /\ fc.source = "LOCAL"
    /\ sandboxed(fc)
    /\ fcop.op = "local_select"
    /\ fcop.exc = "ParentPathError"
    /\ fcop.arg.path = LINK
    /\ fc.selected_path = SUB_DIR

---------------------------------------------------------------------------
(* C34 *)

\* the dialog of the local form is shown with a filename that holds a path
\* separator or ".."
InvalidNameShown ==
    fc.source = "LOCAL" /\ fc.shown /\ BadName(fc.filename)

\* C34: while the dialog is shown for the local source and the filename
\* field holds a path separator or "..", the Select, Read and Save buttons
\* are all disabled, also after data was read.
C34_InvalidNameDisablesButtons ==
    InvalidNameShown =>
        fc.select_disabled /\ fc.read_disabled /\ fc.save_disabled

=========================================================================
